---- MODULE Spec2Model ----
(***************************************************************************)
(* Container codec layer of ai-content-tagging-tools: the ID3v2 audio      *)
(* handler (lib/formats/id3-audio.js) and the EXIF/XMP image handler       *)
(* (lib/formats/exif-image.js).  Buffers are sequences of bytes 0..255,    *)
(* JavaScript strings are sequences of code points, metadata objects are   *)
(* sequences of <<key, type, value>> entries in insertion order.           *)
(***************************************************************************)
EXTENDS Integers, Sequences, FiniteSets, TLC

VARIABLES handler, file, input, lastOp, argument, record, embedOptions, result, since, steps,
          probe

\* the state of a handler at work on a file
run == <<handler, file, input, lastOp, argument, record, embedOptions, result, since, steps>>

vars == <<run, probe>>

(***************************************************************************)
(* Text constants of the two handlers, as code points.                     *)
(***************************************************************************)
\* 'ID3'
S_ID3 == <<73, 68, 51>>

\* 'TXXX'
S_TXXX == <<84, 88, 88, 88>>

\* 'PRIV'
S_PRIV == <<80, 82, 73, 86>>

\* 'TIT2'
S_TIT2 == <<84, 73, 84, 50>>

\* 'AI_METADATA'
S_AI_METADATA == <<65, 73, 95, 77, 69, 84, 65, 68, 65, 84, 65>>

\* 'AI_CHECKSUM'
S_AI_CHECKSUM == <<65, 73, 95, 67, 72, 69, 67, 75, 83, 85, 77>>

\* 'AI_SIGNATURE'
S_AI_SIGNATURE == <<65, 73, 95, 83, 73, 71, 78, 65, 84, 85, 82, 69>>

\* 'CustomTag'
S_CustomTag == <<67, 117, 115, 116, 111, 109, 84, 97, 103>>

\* 'contentType'
K_contentType == <<99, 111, 110, 116, 101, 110, 116, 84, 121, 112, 101>>

\* 'origin'
K_origin == <<111, 114, 105, 103, 105, 110>>

\* 'created'
K_created == <<99, 114, 101, 97, 116, 101, 100>>

\* 'author'
K_author == <<97, 117, 116, 104, 111, 114>>

\* 'description'
K_description == <<100, 101, 115, 99, 114, 105, 112, 116, 105, 111, 110>>

\* 'license'
K_license == <<108, 105, 99, 101, 110, 115, 101>>

\* 'checksum'
K_checksum == <<99, 104, 101, 99, 107, 115, 117, 109>>

\* 'signature'
K_signature == <<115, 105, 103, 110, 97, 116, 117, 114, 101>>

\* 'metadata'
K_metadata == <<109, 101, 116, 97, 100, 97, 116, 97>>

\* 'version'
K_version == <<118, 101, 114, 115, 105, 111, 110>>

\* 'creation_timestamp'
K_creation_timestamp ==
    <<99, 114, 101, 97, 116, 105, 111, 110, 95, 116, 105, 109, 101, 115, 116, 97, 109, 112>>

\* 'toolchain'
K_toolchain == <<116, 111, 111, 108, 99, 104, 97, 105, 110>>

\* 'model_identifier'
K_model_identifier ==
    <<109, 111, 100, 101, 108, 95, 105, 100, 101, 110, 116, 105, 102, 105, 101, 114>>

\* '1.0'
S_1_0 == <<49, 46, 48>>

\* 'human'
S_human == <<104, 117, 109, 97, 110>>

\* 'Unknown'
S_Unknown == <<85, 110, 107, 110, 111, 119, 110>>

\* '_verified'
K_verified == <<95, 118, 101, 114, 105, 102, 105, 101, 100>>

\* '_signatureValid'
K_signatureValid == <<95, 115, 105, 103, 110, 97, 116, 117, 114, 101, 86, 97, 108, 105, 100>>

\* '{"type":"Buffer","data":['
S_BufferJSONHead ==
    <<123, 34, 116, 121, 112, 101, 34, 58, 34, 66, 117, 102, 102, 101, 114, 34, 44, 34, 100, 97,
    116, 97, 34, 58, 91>>

\* ']}'
S_BufferJSONTail == <<93, 125>>

\* 'true'
S_true == <<116, 114, 117, 101>>

\* 'false'
S_false == <<102, 97, 108, 115, 101>>

\* 'http://ns.adobe.com/xap/1.0/\x00'
XMP_IDENTIFIER ==
    <<104, 116, 116, 112, 58, 47, 47, 110, 115, 46, 97, 100, 111, 98, 101, 46, 99, 111, 109, 47,
    120, 97, 112, 47, 49, 46, 48, 47, 0>>

\* 'Exif\x00\x00'
EXIF_IDENTIFIER == <<69, 120, 105, 102, 0, 0>>

\* 'Exif'
S_Exif == <<69, 120, 105, 102>>

\* 'http://ns.adobe.com/xap/1.0/'
S_XapNamespace ==
    <<104, 116, 116, 112, 58, 47, 47, 110, 115, 46, 97, 100, 111, 98, 101, 46, 99, 111, 109, 47,
    120, 97, 112, 47, 49, 46, 48, 47>>

\* '<aicontag:metadata>'
XMP_OPEN_METADATA ==
    <<60, 97, 105, 99, 111, 110, 116, 97, 103, 58, 109, 101, 116, 97, 100, 97, 116, 97, 62>>

\* '</aicontag:metadata>'
XMP_CLOSE_METADATA ==
    <<60, 47, 97, 105, 99, 111, 110, 116, 97, 103, 58, 109, 101, 116, 97, 100, 97, 116, 97, 62>>

\* 'UNICODE\x00'
S_UNICODE0 == <<85, 78, 73, 67, 79, 68, 69, 0>>

\* 'http://aicontenttagging.org/schemas/1.0/'
AI_XMP_NAMESPACE ==
    <<104, 116, 116, 112, 58, 47, 47, 97, 105, 99, 111, 110, 116, 101, 110, 116, 116, 97, 103,
    103, 105, 110, 103, 46, 111, 114, 103, 47, 115, 99, 104, 101, 109, 97, 115, 47, 49, 46, 48,
    47>>

\* 'aicontag'
AI_XMP_PREFIX == <<97, 105, 99, 111, 110, 116, 97, 103>>

\* '"contentType"'
S_QuotedContentType == <<34, 99, 111, 110, 116, 101, 110, 116, 84, 121, 112, 101, 34>>

\* '<?xml version="1.0" encoding="UTF-8"?>\n<x:xmpmeta xmlns:x="adobe:ns:meta/" x:xmptk="AI Content Tagging Tools 1.0">\n  <rdf:RDF xmlns:rdf="http://www.w3.org/1999/02/22-rdf-syntax-ns#">\n    <rdf:Description rdf:about="" xmlns:aicontag="http://aicontenttagging.org/schemas/1.0/">\n      '
XMP_PROLOG ==
    <<60, 63, 120, 109, 108, 32, 118, 101, 114, 115, 105, 111, 110, 61, 34, 49, 46, 48, 34, 32,
    101, 110, 99, 111, 100, 105, 110, 103, 61, 34, 85, 84, 70, 45, 56, 34, 63, 62, 10, 60, 120,
    58, 120, 109, 112, 109, 101, 116, 97, 32, 120, 109, 108, 110, 115, 58, 120, 61, 34, 97, 100,
    111, 98, 101, 58, 110, 115, 58, 109, 101, 116, 97, 47, 34, 32, 120, 58, 120, 109, 112, 116,
    107, 61, 34, 65, 73, 32, 67, 111, 110, 116, 101, 110, 116, 32, 84, 97, 103, 103, 105, 110,
    103, 32, 84, 111, 111, 108, 115, 32, 49, 46, 48, 34, 62, 10, 32, 32, 60, 114, 100, 102, 58,
    82, 68, 70, 32, 120, 109, 108, 110, 115, 58, 114, 100, 102, 61, 34, 104, 116, 116, 112, 58,
    47, 47, 119, 119, 119, 46, 119, 51, 46, 111, 114, 103, 47, 49, 57, 57, 57, 47, 48, 50, 47, 50,
    50, 45, 114, 100, 102, 45, 115, 121, 110, 116, 97, 120, 45, 110, 115, 35, 34, 62, 10, 32, 32,
    32, 32, 60, 114, 100, 102, 58, 68, 101, 115, 99, 114, 105, 112, 116, 105, 111, 110, 32, 114,
    100, 102, 58, 97, 98, 111, 117, 116, 61, 34, 34, 32, 120, 109, 108, 110, 115, 58, 97, 105, 99,
    111, 110, 116, 97, 103, 61, 34, 104, 116, 116, 112, 58, 47, 47, 97, 105, 99, 111, 110, 116,
    101, 110, 116, 116, 97, 103, 103, 105, 110, 103, 46, 111, 114, 103, 47, 115, 99, 104, 101,
    109, 97, 115, 47, 49, 46, 48, 47, 34, 62, 10, 32, 32, 32, 32, 32, 32>>

\* '\n    </rdf:Description>\n  </rdf:RDF>\n</x:xmpmeta>'
XMP_EPILOG ==
    <<10, 32, 32, 32, 32, 60, 47, 114, 100, 102, 58, 68, 101, 115, 99, 114, 105, 112, 116, 105,
    111, 110, 62, 10, 32, 32, 60, 47, 114, 100, 102, 58, 82, 68, 70, 62, 10, 60, 47, 120, 58, 120,
    109, 112, 109, 101, 116, 97, 62>>

\* '\n      '
XMP_SEP == <<10, 32, 32, 32, 32, 32, 32>>

\* '&amp;'
S_amp == <<38, 97, 109, 112, 59>>

\* '&lt;'
S_lt == <<38, 108, 116, 59>>

\* '&gt;'
S_gt == <<38, 103, 116, 59>>

\* '&quot;'
S_quot == <<38, 113, 117, 111, 116, 59>>

\* '&apos;'
S_apos == <<38, 97, 112, 111, 115, 59>>

\* '0123456789abcdef'
S_HexDigits == <<48, 49, 50, 51, 52, 53, 54, 55, 56, 57, 97, 98, 99, 100, 101, 102>>


(***************************************************************************)
(* Buffer and string primitives (Node.js Buffer / String semantics).       *)
(***************************************************************************)
Min(a, b) == IF a < b THEN a ELSE b

Max(a, b) == IF a > b THEN a ELSE b

\* Buffer.slice(start, end) / String.slice: 0-based, end exclusive, clamped
Slice(buf, start, end) ==
    SubSeq(buf, Min(start, Len(buf)) + 1, Min(end, Len(buf)))

\* Buffer.slice(start)
SliceFrom(buf, start) == Slice(buf, start, Len(buf))

\* buf[i] used inside a bitwise expression: undefined coerces to 0
ByteOrZero(buf, i) == IF i < Len(buf) THEN buf[i + 1] ELSE 0

\* Buffer.concat over a list of buffers
RECURSIVE ConcatAll(_)
ConcatAll(list) ==
    IF list = <<>> THEN <<>> ELSE Head(list) \o ConcatAll(Tail(list))

\* Buffer.alloc(n, 0)
Zeros(n) == [i \in 1..n |-> 0]

\* s.startsWith(pat, at) with a 0-based position
MatchesAt(s, pat, at) ==
    /\ at + Len(pat) <= Len(s)
    /\ \A k \in 1..Len(pat) : s[at + k] = pat[k]

\* s.indexOf(pat, from): 0-based index of the first occurrence, -1 if none
IndexOf(s, pat, from) ==
    LET hits == {i \in from..(Len(s) - Len(pat)) : MatchesAt(s, pat, i)}
    IN  IF hits = {} THEN -1 ELSE CHOOSE i \in hits : \A j \in hits : i <= j

\* s.includes(pat)
Includes(s, pat) == IndexOf(s, pat, 0) >= 0

\* s.replace(/pat/g, rep): leftmost, non-overlapping, one pass
RECURSIVE ReplaceFrom(_, _, _, _)
ReplaceFrom(s, pat, rep, at) ==
    LET i == IndexOf(s, pat, at)
    IN  IF i < 0 THEN SliceFrom(s, at)
        ELSE Slice(s, at, i) \o rep \o ReplaceFrom(s, pat, rep, i + Len(pat))

ReplaceAll(s, pat, rep) == ReplaceFrom(s, pat, rep, 0)

\* a | b on non-negative 32-bit operands
RECURSIVE BitOr(_, _)
BitOr(a, b) ==
    IF a = 0 THEN b
    ELSE IF b = 0 THEN a
    ELSE 2 * BitOr(a \div 2, b \div 2) + Max(a % 2, b % 2)

\* buf.toString('utf8'): ASCII bytes decode to themselves; a byte >= 0x80 that
\* is not part of a well-formed multi-byte sequence decodes to U+FFFD.  The
\* inputs of this model hold no well-formed multi-byte sequence.
REPLACEMENT_CHAR == 65533

Utf8Decode(buf) ==
    [i \in 1..Len(buf) |-> IF buf[i] < 128 THEN buf[i] ELSE REPLACEMENT_CHAR]

\* Buffer.from(str, 'utf8') for code points below 0x10000
Utf8EncodeChar(c) ==
    IF c < 128 THEN <<c>>
    ELSE IF c < 2048 THEN <<192 + (c \div 64), 128 + (c % 64)>>
    ELSE <<224 + (c \div 4096), 128 + ((c \div 64) % 64), 128 + (c % 64)>>

\* balanced recursion keeps the evaluation depth logarithmic in the length
RECURSIVE Utf8EncodeRange(_, _, _)
Utf8EncodeRange(str, lo, hi) ==
    IF lo > hi THEN <<>>
    ELSE IF lo = hi THEN Utf8EncodeChar(str[lo])
    ELSE LET mid == (lo + hi) \div 2
         IN  Utf8EncodeRange(str, lo, mid) \o Utf8EncodeRange(str, mid + 1, hi)

Utf8Encode(str) == Utf8EncodeRange(str, 1, Len(str))

\* buf.toString('ascii'): the high bit of every byte is cleared
AsciiDecode(buf) == [i \in 1..Len(buf) |-> buf[i] % 128]

\* Buffer.from(str, 'utf16le') for code points below 0x10000
Utf16leEncode(str) ==
    [i \in 1..(2 * Len(str)) |->
        IF i % 2 = 1 THEN str[(i + 1) \div 2] % 256 ELSE str[i \div 2] \div 256]

\* buf.toString('utf16le'): one code unit per byte pair, a trailing odd byte dropped
Utf16leDecode(buf) ==
    [i \in 1..(Len(buf) \div 2) |-> buf[2 * i - 1] + 256 * buf[2 * i]]

\* buf.readUInt16BE(at); the caller checks the range (RangeError otherwise)
ReadUInt16BE(buf, at) == 256 * buf[at + 1] + buf[at + 2]

\* buf.writeUInt16BE(value)
UInt16BE(value) == <<(value \div 256) % 256, value % 256>>

\* buf.readUInt32BE(0); the caller checks the range
ReadUInt32BE(buf) ==
    16777216 * buf[1] + 65536 * buf[2] + 256 * buf[3] + buf[4]

UInt32BE(value) ==
    <<(value \div 16777216) % 256, (value \div 65536) % 256,
      (value \div 256) % 256, value % 256>>

\* digest('hex') of crypto.createHash('sha256').update(data): the digest is
\* idealised as collision-free, so it is modelled by an injective function
\* of the data with hexadecimal output (two digits per input unit).
HexOf(data) ==
    [i \in 1..(2 * Len(data)) |->
        IF i % 2 = 1 THEN S_HexDigits[((data[(i + 1) \div 2] \div 16) % 16) + 1]
        ELSE S_HexDigits[(data[i \div 2] % 16) + 1]]

SHA256Hex(data) == HexOf(data)

(***************************************************************************)
(* Metadata objects.  An object is the sequence of its own properties in   *)
(* insertion order; a property is <<key, type, value>> with type "string"  *)
(* (value: code points), "buffer" (value: bytes) or "boolean" (value:      *)
(* <<1>> or <<0>>); a property set to undefined has type "undefined".      *)
(***************************************************************************)
Prop(key, type, value) == <<key, type, value>>

Str(key, value) == Prop(key, "string", value)

Bool(key, b) == Prop(key, "boolean", IF b THEN <<1>> ELSE <<0>>)

HasKey(m, key) == \E i \in 1..Len(m) : m[i][1] = key

Get(m, key) == m[CHOOSE i \in 1..Len(m) : m[i][1] = key]

\* !!m[key]: undefined, '' and false are falsy; a Buffer is an object, so truthy
Truthy(m, key) ==
    /\ HasKey(m, key)
    /\ LET p == Get(m, key)
       IN  CASE p[2] = "string" -> p[3] # <<>>
             [] p[2] = "boolean" -> p[3] = <<1>>
             [] p[2] = "undefined" -> FALSE
             [] OTHER -> TRUE

\* m[key] = value: an existing property keeps its position
SetField(m, key, type, value) ==
    IF HasKey(m, key)
    THEN [i \in 1..Len(m) |-> IF m[i][1] = key THEN Prop(key, type, value) ELSE m[i]]
    ELSE Append(m, Prop(key, type, value))

\* delete m[key]
DeleteField(m, key) == SelectSeq(m, LAMBDA p : p[1] # key)

\* the object as a set of properties: field-for-field comparison ignores order
Fields(m) == {m[i] : i \in 1..Len(m)}

(***************************************************************************)
(* JSON.stringify of a metadata object.                                    *)
(***************************************************************************)
Decimal(n) ==
    IF n < 10 THEN <<48 + n>>
    ELSE IF n < 100 THEN <<48 + (n \div 10), 48 + (n % 10)>>
    ELSE <<48 + (n \div 100), 48 + ((n \div 10) % 10), 48 + (n % 10)>>

\* one character of a JSON string literal (QuoteJSONString of ECMA-262)
JSONEscapeChar(c) ==
    CASE c = 34 -> <<92, 34>>
      [] c = 92 -> <<92, 92>>
      [] c = 8  -> <<92, 98>>
      [] c = 9  -> <<92, 116>>
      [] c = 10 -> <<92, 110>>
      [] c = 12 -> <<92, 102>>
      [] c = 13 -> <<92, 114>>
      [] c < 32 /\ c \notin {8, 9, 10, 12, 13} ->
            <<92, 117, 48, 48, S_HexDigits[(c \div 16) + 1], S_HexDigits[(c % 16) + 1]>>
      [] OTHER -> <<c>>

RECURSIVE JSONEscapeRange(_, _, _)
JSONEscapeRange(str, lo, hi) ==
    IF lo > hi THEN <<>>
    ELSE IF lo = hi THEN JSONEscapeChar(str[lo])
    ELSE LET mid == (lo + hi) \div 2
         IN  JSONEscapeRange(str, lo, mid) \o JSONEscapeRange(str, mid + 1, hi)

JSONQuote(str) == <<34>> \o JSONEscapeRange(str, 1, Len(str)) \o <<34>>

RECURSIVE JSONNumberList(_, _, _)
JSONNumberList(bytes, lo, hi) ==
    IF lo > hi THEN <<>>
    ELSE IF lo = hi THEN Decimal(bytes[lo])
    ELSE LET mid == (lo + hi) \div 2
         IN  JSONNumberList(bytes, lo, mid) \o <<44>> \o JSONNumberList(bytes, mid + 1, hi)

\* a Buffer serialises through Buffer.prototype.toJSON
JSONValue(p) ==
    CASE p[2] = "string" -> JSONQuote(p[3])
      [] p[2] = "boolean" -> IF p[3] = <<1>> THEN S_true ELSE S_false
      [] OTHER -> S_BufferJSONHead \o JSONNumberList(p[3], 1, Len(p[3])) \o S_BufferJSONTail

RECURSIVE JSONMembers(_, _)
JSONMembers(m, i) ==
    IF i > Len(m) THEN <<>>
    ELSE (IF i > 1 THEN <<44>> ELSE <<>>)
         \o JSONQuote(m[i][1]) \o <<58>> \o JSONValue(m[i])
         \o JSONMembers(m, i + 1)

JSONStringify(m) == <<123>> \o JSONMembers(m, 1) \o <<125>>

(***************************************************************************)
(* JSON.parse, for texts that are an object whose values are strings or    *)
(* booleans, written without insignificant white space; every other text   *)
(* of this model's inputs is not JSON at all and is rejected.              *)
(***************************************************************************)
\* number of consecutive backslashes that end at 0-based position at - 1
RECURSIVE BackslashRun(_, _)
BackslashRun(s, at) ==
    IF at >= 1 /\ s[at] = 92 THEN 1 + BackslashRun(s, at - 1) ELSE 0

\* 0-based position of the quote that closes the string opened at `open`, or -1
ClosingQuote(s, open) ==
    LET closing == {j \in (open + 1)..(Len(s) - 1) :
                       s[j + 1] = 34 /\ BackslashRun(s, j) % 2 = 0}
    IN  IF closing = {} THEN -1 ELSE CHOOSE j \in closing : \A k \in closing : j <= k

HexValue(c) ==
    IF c >= 48 /\ c <= 57 THEN c - 48
    ELSE IF c >= 97 /\ c <= 102 THEN c - 87
    ELSE IF c >= 65 /\ c <= 70 THEN c - 55
    ELSE -1

\* the characters of a string literal's body, or <<-1>> if an escape is invalid
RECURSIVE JSONUnescape(_, _)
JSONUnescape(body, at) ==
    LET i == IndexOf(body, <<92>>, at)
    IN  IF i < 0 THEN SliceFrom(body, at)
        ELSE IF i + 1 >= Len(body) THEN <<-1>>
        ELSE LET e == body[i + 2]
                 simple == CASE e = 34 -> 34 [] e = 92 -> 92 [] e = 47 -> 47
                             [] e = 98 -> 8 [] e = 102 -> 12 [] e = 110 -> 10
                             [] e = 114 -> 13 [] e = 116 -> 9 [] OTHER -> -1
             IN  IF simple >= 0
                 THEN LET rest == JSONUnescape(body, i + 2)
                      IN  IF rest = <<-1>> THEN rest
                          ELSE Slice(body, at, i) \o <<simple>> \o rest
                 ELSE IF e = 117 /\ i + 6 <= Len(body)
                         /\ \A k \in 3..6 : HexValue(body[i + k]) >= 0
                 THEN LET rest == JSONUnescape(body, i + 6)
                          cp == 4096 * HexValue(body[i + 3]) + 256 * HexValue(body[i + 4])
                                + 16 * HexValue(body[i + 5]) + HexValue(body[i + 6])
                      IN  IF rest = <<-1>> THEN rest
                          ELSE Slice(body, at, i) \o <<cp>> \o rest
                 ELSE <<-1>>

\* a string literal's value; a raw control character is a syntax error
JSONStringBody(body) ==
    IF \E k \in 1..Len(body) : body[k] < 32 THEN <<-1>> ELSE JSONUnescape(body, 0)

JSONFail == [ok |-> FALSE, value |-> <<>>]

\* members of an object from 0-based position at, which must hold a key's quote
RECURSIVE JSONParseMembers(_, _, _)
JSONParseMembers(s, at, acc) ==
    IF ~(at < Len(s) /\ s[at + 1] = 34) THEN JSONFail
    ELSE LET kEnd == ClosingQuote(s, at)
         IN  IF kEnd < 0 THEN JSONFail
             ELSE LET key == JSONStringBody(Slice(s, at + 1, kEnd))
                      vAt == kEnd + 2
                  IN  IF key = <<-1>> \/ ~(kEnd + 1 < Len(s) /\ s[kEnd + 2] = 58) THEN JSONFail
                      ELSE LET isStr == vAt < Len(s) /\ s[vAt + 1] = 34
                               isTrue == MatchesAt(s, S_true, vAt)
                               isFalse == MatchesAt(s, S_false, vAt)
                               vEnd == IF isStr THEN ClosingQuote(s, vAt)
                                       ELSE IF isTrue THEN vAt + 3
                                       ELSE IF isFalse THEN vAt + 4 ELSE -1
                               val == IF isStr /\ vEnd >= 0
                                      THEN JSONStringBody(Slice(s, vAt + 1, vEnd))
                                      ELSE IF isTrue THEN <<1>> ELSE <<0>>
                               next == SetField(acc, key,
                                                IF isStr THEN "string" ELSE "boolean", val)
                           IN  IF vEnd < 0 \/ val = <<-1>> \/ vEnd + 1 >= Len(s) THEN JSONFail
                               ELSE IF s[vEnd + 2] = 125
                                    THEN IF vEnd + 2 = Len(s)
                                         THEN [ok |-> TRUE, value |-> next]
                                         ELSE JSONFail
                               ELSE IF s[vEnd + 2] = 44
                                    THEN JSONParseMembers(s, vEnd + 2, next)
                               ELSE JSONFail

JSONParse(s) ==
    IF Len(s) < 2 \/ s[1] # 123 THEN JSONFail
    ELSE IF s = <<123, 125>> THEN [ok |-> TRUE, value |-> <<>>]
    ELSE JSONParseMembers(s, 1, <<>>)

(***************************************************************************)
(* ID3AudioHandler (lib/formats/id3-audio.js).                             *)
(***************************************************************************)
ID3_PADDING == 1024

ID3_HEADER_SIZE == 10

\* a faulty reader that takes eight bits from every byte
readPlainInt(buffer) ==
    ((ByteOrZero(buffer, 0) * 256 + ByteOrZero(buffer, 1)) * 256 + ByteOrZero(buffer, 2)) * 256
    + ByteOrZero(buffer, 3)

\* _readSynchsafeInt: (b0 << 21) | (b1 << 14) | (b2 << 7) | b3
readSynchsafeInt(buffer) ==
    BitOr(BitOr(BitOr(ByteOrZero(buffer, 0) * 2097152, ByteOrZero(buffer, 1) * 16384),
                ByteOrZero(buffer, 2) * 128),
          ByteOrZero(buffer, 3))

\* _writeSynchsafeInt: the four bytes written at the offset
writeSynchsafeInt(value) ==
    <<(value \div 2097152) % 128, (value \div 16384) % 128,
      (value \div 128) % 128, value % 128>>

\* _readFrameSize throws (RangeError of readUInt32BE) on a short buffer
readFrameSizeThrows(buffer, majorVersion) == majorVersion < 4 /\ Len(buffer) < 4

readFrameSize(buffer, majorVersion) ==
    IF majorVersion >= 4 THEN readSynchsafeInt(buffer) ELSE ReadUInt32BE(buffer)

\* _writeFrameSize
writeFrameSize(h, size) ==
    IF h.version = "2.4" THEN writeSynchsafeInt(size) ELSE UInt32BE(size)

\* _parseID3Header
parseID3Header(audioBuffer) ==
    IF Len(audioBuffer) < ID3_HEADER_SIZE \/ Utf8Decode(Slice(audioBuffer, 0, 3)) # S_ID3
    THEN [hasID3 |-> FALSE, tagSize |-> 0, majorVersion |-> 0, existingFrames |-> <<>>]
    ELSE [hasID3 |-> TRUE,
          tagSize |-> readSynchsafeInt(Slice(audioBuffer, 6, 10)) + ID3_HEADER_SIZE,
          majorVersion |-> audioBuffer[4],
          existingFrames |-> <<>>]

\* _parseID3Frames: the loop from `offset`, with the frames pushed so far
RECURSIVE parseFramesFrom(_, _, _, _, _)
parseFramesFrom(audioBuffer, offset, tagEnd, majorVersion, frames) ==
    IF ~(offset < tagEnd - 4) THEN [ok |-> TRUE, frames |-> frames]
    ELSE LET frameId == Utf8Decode(Slice(audioBuffer, offset, offset + 4))
             sizeBytes == Slice(audioBuffer, offset + 4, offset + 8)
         IN  IF frameId = <<0, 0, 0, 0>> THEN [ok |-> TRUE, frames |-> frames]
             ELSE IF readFrameSizeThrows(sizeBytes, majorVersion)
                  THEN [ok |-> FALSE, frames |-> <<>>]
             ELSE LET frameSize == readFrameSize(sizeBytes, majorVersion)
                  IN  IF frameSize = 0 \/ offset + 10 + frameSize > tagEnd
                      THEN [ok |-> TRUE, frames |-> frames]
                      ELSE parseFramesFrom(audioBuffer, offset + 10 + frameSize, tagEnd,
                               majorVersion,
                               Append(frames,
                                   [id |-> frameId,
                                    size |-> frameSize,
                                    flags |-> Slice(audioBuffer, offset + 8, offset + 10),
                                    data |-> Slice(audioBuffer, offset + 10,
                                                   offset + 10 + frameSize)]))

\* one turn of the loop of _parseID3Frames with the cursor at `offset`: whether
\* the walk stops (the loop condition, a break or a throw) and the cursor after
frameWalkTurn(audioBuffer, id3Info, offset) ==
    LET sizeBytes == Slice(audioBuffer, offset + 4, offset + 8)
        advance(frameSize) ==
            IF frameSize = 0 \/ offset + 10 + frameSize > id3Info.tagSize
            THEN [stop |-> TRUE, offset |-> offset]
            ELSE [stop |-> FALSE, offset |-> offset + 10 + frameSize]
    IN  IF ~(offset < id3Info.tagSize - 4) THEN [stop |-> TRUE, offset |-> offset]
        ELSE IF Utf8Decode(Slice(audioBuffer, offset, offset + 4)) = <<0, 0, 0, 0>>
             THEN [stop |-> TRUE, offset |-> offset]
        ELSE IF readFrameSizeThrows(sizeBytes, id3Info.majorVersion)
             THEN [stop |-> TRUE, offset |-> offset]
        ELSE advance(readFrameSize(sizeBytes, id3Info.majorVersion))

parseID3Frames(audioBuffer, id3Info) ==
    parseFramesFrom(audioBuffer, ID3_HEADER_SIZE, id3Info.tagSize, id3Info.majorVersion, <<>>)

\* index of the first zero byte, or -1
FirstNull(data) == IndexOf(data, <<0>>, 0)

\* _parseTextFrame
parseTextFrame(data) ==
    LET textData == SliceFrom(data, 1)
        nullIndex == FirstNull(textData)
    IN  IF nullIndex = -1
        THEN [description |-> <<>>, value |-> Utf8Decode(textData)]
        ELSE [description |-> Utf8Decode(Slice(textData, 0, nullIndex)),
              value |-> Utf8Decode(SliceFrom(textData, nullIndex + 1))]

\* _parsePrivateFrame
parsePrivateFrame(data) ==
    LET nullIndex == FirstNull(data)
    IN  IF nullIndex = -1
        THEN [identifier |-> <<>>, data |-> data]
        ELSE [identifier |-> Utf8Decode(Slice(data, 0, nullIndex)),
              data |-> SliceFrom(data, nullIndex + 1)]

\* _isAIMetadataFrame
isAIMetadataFrame(frame) ==
    IF frame.id = S_TXXX
    THEN parseTextFrame(frame.data).description \in {S_AI_METADATA, S_AI_CHECKSUM}
    ELSE IF frame.id = S_PRIV
    THEN parsePrivateFrame(frame.data).identifier = S_AI_SIGNATURE
    ELSE FALSE

\* _createTextFrame (a created frame object carries no flags)
createTextFrame(frameId, description, value) ==
    LET data == <<3>> \o Utf8Encode(description) \o <<0>> \o Utf8Encode(value)
    IN  [id |-> frameId, size |-> Len(data), flags |-> <<>>, data |-> data]

\* _createPrivateFrame
createPrivateFrame(frameId, identifier, privateData) ==
    LET data == Utf8Encode(identifier) \o <<0>> \o Utf8Encode(privateData)
    IN  [id |-> frameId, size |-> Len(data), flags |-> <<>>, data |-> data]

\* header.write(frame.id, 0, 4): whole characters that fit in four bytes,
\* the rest of the zero-filled header left as it is
RECURSIVE WriteChars(_, _)
WriteChars(str, room) ==
    IF str = <<>> \/ Len(Utf8EncodeChar(Head(str))) > room THEN Zeros(room)
    ELSE Utf8EncodeChar(Head(str))
         \o WriteChars(Tail(str), room - Len(Utf8EncodeChar(Head(str))))

\* _buildFrame
buildFrame(h, frame) ==
    WriteChars(frame.id, 4) \o writeFrameSize(h, Len(frame.data)) \o <<0, 0>> \o frame.data

\* _buildID3Tag
buildID3Tag(h, frames) ==
    LET framesData == ConcatAll([i \in 1..Len(frames) |-> buildFrame(h, frames[i])])
        totalSize == Len(framesData) + ID3_PADDING
    IN  S_ID3 \o <<4, 0, 0>> \o writeSynchsafeInt(totalSize) \o framesData \o Zeros(ID3_PADDING)

\* _createSignature: sign.sign(privateKey, 'base64'), a deterministic function of
\* the key and the signed text, idealised as injective in the text
createSignature(metadata, privateKey) ==
    privateKey \o HexOf(Utf8Encode(JSONStringify(metadata)))

\* _createID3Tag
createID3Tag(h, metadata, existingFrames, options) ==
    LET json == JSONStringify(metadata)
        preserved == IF h.preserveExisting
                     THEN SelectSeq(existingFrames, LAMBDA f : ~isAIMetadataFrame(f))
                     ELSE <<>>
        metadataFrame == <<createTextFrame(S_TXXX, S_AI_METADATA, json)>>
        checksumFrame == IF options.includeChecksum
                         THEN <<createTextFrame(S_TXXX, S_AI_CHECKSUM,
                                                SHA256Hex(Utf8Encode(json)))>>
                         ELSE <<>>
        signatureFrame == IF options.privateKey # <<>>
                          THEN <<createPrivateFrame(S_PRIV, S_AI_SIGNATURE,
                                     createSignature(metadata, options.privateKey))>>
                          ELSE <<>>
    IN  buildID3Tag(h, preserved \o metadataFrame \o checksumFrame \o signatureFrame)

\* a metadata argument that is not an object (null, a number, ...)
NotAnObject == <<Prop(<<>>, "primitive", <<>>)>>

\* _validateMetadata (the same code in both handlers): TRUE when it throws
validateMetadataThrows(metadata) ==
    \/ metadata = NotAnObject
    \/ \E field \in {K_contentType, K_origin, K_created} : ~Truthy(metadata, field)

(***************************************************************************)
(* What an operation returns to its caller: bytes, a metadata object,      *)
(* null, a boolean, or an error thrown.  An error carries the step that    *)
(* raised it: "validation" (_validateMetadata), "format" (the unsupported  *)
(* format branch), "placeholder" (the TIFF and PNG stubs), "parse" (a read *)
(* past the end of the buffer) or "build" (a write that does not fit).     *)
(***************************************************************************)
NoResult == [kind |-> "none", bytes |-> <<>>, value |-> <<>>, flag |-> FALSE,
     raisedBy |-> "none"]

Bytes(b) == [kind |-> "bytes", bytes |-> b, value |-> <<>>, flag |-> FALSE,
     raisedBy |-> "none"]

Object(m) == [kind |-> "object", bytes |-> <<>>, value |-> m, flag |-> FALSE,
     raisedBy |-> "none"]

Null == [kind |-> "null", bytes |-> <<>>, value |-> <<>>, flag |-> FALSE,
     raisedBy |-> "none"]

Boolean(b) == [kind |-> "boolean", bytes |-> <<>>, value |-> <<>>, flag |-> b,
     raisedBy |-> "none"]

Thrown(step) ==
    [kind |-> "error", bytes |-> <<>>, value |-> <<>>, flag |-> FALSE,
     raisedBy |-> step]

\* _verifyChecksum (the same code in both handlers; the content buffer it is
\* handed is never read)
verifyChecksum(metadata, contentBuffer) ==
    LET metadataCopy == DeleteField(DeleteField(DeleteField(metadata, K_checksum),
                                                K_verified), K_signatureValid)
        calculatedChecksum == SHA256Hex(Utf8Encode(JSONStringify(metadataCopy)))
        stored == Get(metadata, K_checksum)
    IN  stored[2] = "string" /\ calculatedChecksum = stored[3]

\* _verifySignature (the same code in both handlers)
verifySignature(metadata) == TRUE

\* the tail of both extractMetadata methods: the derived flags
withVerification(metadata, contentBuffer) ==
    LET withSignatureFlag(checked) ==
            IF Truthy(checked, K_signature)
            THEN SetField(checked, K_signatureValid, "boolean",
                     IF verifySignature(checked) THEN <<1>> ELSE <<0>>)
            ELSE checked
    IN  withSignatureFlag(
            IF Truthy(metadata, K_checksum)
            THEN SetField(metadata, K_verified, "boolean",
                     IF verifyChecksum(metadata, contentBuffer) THEN <<1>> ELSE <<0>>)
            ELSE metadata)

\* _extractAIFrames: the loop over the frames, then the merge
RECURSIVE scanAIFrames(_, _, _)
scanAIFrames(frames, i, acc) ==
    IF i > Len(frames) THEN acc
    ELSE LET frame == frames[i]
             withJSON(parsed) ==
                IF parsed.ok
                THEN [acc EXCEPT !.hasMetadata = TRUE, !.metadata = parsed.value]
                ELSE acc
             withText(textData) ==
                IF textData.description = S_AI_METADATA
                THEN withJSON(JSONParse(textData.value))
                ELSE IF textData.description = S_AI_CHECKSUM
                     THEN [acc EXCEPT !.checksum = textData.value]
                     ELSE acc
             withPrivate(privateData) ==
                IF privateData.identifier = S_AI_SIGNATURE
                THEN [acc EXCEPT !.hasSignature = TRUE, !.signature = privateData.data]
                ELSE acc
         IN  scanAIFrames(frames, i + 1,
                 IF frame.id = S_TXXX THEN withText(parseTextFrame(frame.data))
                 ELSE IF frame.id = S_PRIV THEN withPrivate(parsePrivateFrame(frame.data))
                 ELSE acc)

extractAIFrames(frames) ==
    LET withSignature(found, metadata) ==
            IF found.hasSignature
            THEN SetField(metadata, K_signature, "buffer", found.signature)
            ELSE metadata
        merged(found) ==
            [found |-> found.hasMetadata,
             metadata |-> withSignature(found,
                              IF found.checksum # <<>>
                              THEN SetField(found.metadata, K_checksum, "string",
                                            found.checksum)
                              ELSE found.metadata)]
    IN  merged(scanAIFrames(frames, 1,
                   [hasMetadata |-> FALSE, metadata |-> <<>>, checksum |-> <<>>,
                    hasSignature |-> FALSE, signature |-> <<>>]))

\* a faulty embedMetadata that puts the new tag in front of the whole input
embedMetadataKeepingOldTag(h, audioBuffer, metadata, options) ==
    IF validateMetadataThrows(metadata) THEN Thrown("validation")
    ELSE Bytes(createID3Tag(h, metadata, <<>>, options) \o audioBuffer)

\* ID3AudioHandler.embedMetadata
ID3_embedMetadata(h, audioBuffer, metadata, options) ==
    IF validateMetadataThrows(metadata) THEN Thrown("validation")
    ELSE LET id3Info == parseID3Header(audioBuffer)
             newID3Tag == createID3Tag(h, metadata, id3Info.existingFrames, options)
         IN  Bytes(newID3Tag \o SliceFrom(audioBuffer, id3Info.tagSize))

\* ID3AudioHandler.extractMetadata
ID3_extractMetadata(h, audioBuffer) ==
    LET fromAIFrames(ai) ==
            IF ~ai.found THEN Null ELSE Object(withVerification(ai.metadata, audioBuffer))
        fromFrames(parsed) ==
            IF ~parsed.ok THEN Thrown("parse")
            ELSE fromAIFrames(extractAIFrames(parsed.frames))
        fromHeader(id3Info) ==
            IF ~id3Info.hasID3 THEN Null ELSE fromFrames(parseID3Frames(audioBuffer, id3Info))
    IN  fromHeader(parseID3Header(audioBuffer))

\* ID3AudioHandler.hasMetadata
ID3_hasMetadata(h, audioBuffer) == Boolean(parseID3Header(audioBuffer).hasID3)

\* a faulty removeMetadata that rebuilds the tag of whatever frames are left
removeMetadataAlwaysRebuilding(h, audioBuffer) ==
    LET rebuilt(id3Info, parsed) ==
            IF ~parsed.ok THEN Thrown("parse")
            ELSE Bytes(buildID3Tag(h, SelectSeq(parsed.frames,
                                                LAMBDA f : ~isAIMetadataFrame(f)))
                       \o SliceFrom(audioBuffer, id3Info.tagSize))
        fromHeader(id3Info) ==
            IF ~id3Info.hasID3 THEN Bytes(audioBuffer)
            ELSE rebuilt(id3Info, parseID3Frames(audioBuffer, id3Info))
    IN  fromHeader(parseID3Header(audioBuffer))

\* ID3AudioHandler.removeMetadata
ID3_removeMetadata(h, audioBuffer) ==
    LET rebuilt(id3Info, filteredFrames) ==
            IF Len(filteredFrames) = 0 THEN Bytes(SliceFrom(audioBuffer, id3Info.tagSize))
            ELSE Bytes(buildID3Tag(h, filteredFrames)
                       \o SliceFrom(audioBuffer, id3Info.tagSize))
        fromFrames(id3Info, parsed) ==
            IF ~parsed.ok THEN Thrown("parse")
            ELSE rebuilt(id3Info, SelectSeq(parsed.frames, LAMBDA f : ~isAIMetadataFrame(f)))
        fromHeader(id3Info) ==
            IF ~id3Info.hasID3 THEN Bytes(audioBuffer)
            ELSE fromFrames(id3Info, parseID3Frames(audioBuffer, id3Info))
    IN  fromHeader(parseID3Header(audioBuffer))

(***************************************************************************)
(* EXIFImageHandler (lib/formats/exif-image.js).                           *)
(***************************************************************************)
JPEG_SOI == 65496

JPEG_APP1 == 65505

JPEG_SOS == 65498

\* _detectImageFormat
detectImageFormat(imageBuffer) ==
    IF Len(imageBuffer) < 4 THEN "unknown"
    ELSE IF imageBuffer[1] = 255 /\ imageBuffer[2] = 216 /\ imageBuffer[3] = 255 THEN "jpeg"
    ELSE IF imageBuffer[1] = 137 /\ imageBuffer[2] = 80 /\ imageBuffer[3] = 78
            /\ imageBuffer[4] = 71 THEN "png"
    ELSE IF \/ imageBuffer[1] = 73 /\ imageBuffer[2] = 73
            \/ imageBuffer[1] = 77 /\ imageBuffer[2] = 77 THEN "tiff"
    ELSE "unknown"

\* _parseJPEGSegments: the loop from `offset`, with the segments pushed so far;
\* readUInt16BE past the end of the buffer throws
RECURSIVE parseSegmentsFrom(_, _, _)
parseSegmentsFrom(imageBuffer, offset, segments) ==
    IF ~(offset < Len(imageBuffer)) THEN [ok |-> TRUE, segments |-> segments]
    ELSE IF imageBuffer[offset + 1] # 255 THEN [ok |-> TRUE, segments |-> segments]
    ELSE IF offset + 2 > Len(imageBuffer) THEN [ok |-> FALSE, segments |-> <<>>]
    ELSE IF ReadUInt16BE(imageBuffer, offset) = JPEG_SOS
         THEN [ok |-> TRUE, segments |-> Append(segments, SliceFrom(imageBuffer, offset))]
    ELSE IF offset + 4 > Len(imageBuffer) THEN [ok |-> FALSE, segments |-> <<>>]
    ELSE LET length == ReadUInt16BE(imageBuffer, offset + 2)
             segmentEnd == offset + 2 + length
         IN  IF segmentEnd > Len(imageBuffer) THEN [ok |-> TRUE, segments |-> segments]
             ELSE parseSegmentsFrom(imageBuffer, segmentEnd,
                                    Append(segments, Slice(imageBuffer, offset, segmentEnd)))

\* a faulty turn that moves the cursor by the declared length alone
segmentWalkTurnByLength(imageBuffer, offset) ==
    IF offset + 4 > Len(imageBuffer) \/ imageBuffer[offset + 1] # 255
    THEN [stop |-> TRUE, offset |-> offset]
    ELSE [stop |-> FALSE, offset |-> offset + ReadUInt16BE(imageBuffer, offset + 2)]

\* one turn of the loop of _parseJPEGSegments with the cursor at `offset`:
\* whether the walk stops (the loop condition, a break or a throw) and the
\* cursor after
segmentWalkTurn(imageBuffer, offset) ==
    LET advance(segmentEnd) ==
            IF segmentEnd > Len(imageBuffer) THEN [stop |-> TRUE, offset |-> offset]
            ELSE [stop |-> FALSE, offset |-> segmentEnd]
    IN  IF ~(offset < Len(imageBuffer)) THEN [stop |-> TRUE, offset |-> offset]
        ELSE IF imageBuffer[offset + 1] # 255 THEN [stop |-> TRUE, offset |-> offset]
        ELSE IF offset + 2 > Len(imageBuffer) THEN [stop |-> TRUE, offset |-> offset]
        ELSE IF ReadUInt16BE(imageBuffer, offset) = JPEG_SOS
             THEN [stop |-> TRUE, offset |-> offset]
        ELSE IF offset + 4 > Len(imageBuffer) THEN [stop |-> TRUE, offset |-> offset]
        ELSE advance(offset + 2 + ReadUInt16BE(imageBuffer, offset + 2))

parseJPEGSegments(imageBuffer) ==
    IF Len(imageBuffer) < 2 THEN [ok |-> FALSE, segments |-> <<>>]
    ELSE IF ReadUInt16BE(imageBuffer, 0) # JPEG_SOI THEN [ok |-> FALSE, segments |-> <<>>]
    ELSE parseSegmentsFrom(imageBuffer, 2, <<Slice(imageBuffer, 0, 2)>>)

\* _escapeXML
escapeXML(text) ==
    ReplaceAll(ReplaceAll(ReplaceAll(ReplaceAll(ReplaceAll(text,
        <<38>>, S_amp), <<60>>, S_lt), <<62>>, S_gt), <<34>>, S_quot), <<39>>, S_apos)

\* _unescapeXML
unescapeXML(text) ==
    ReplaceAll(ReplaceAll(ReplaceAll(ReplaceAll(ReplaceAll(text,
        S_amp, <<38>>), S_lt, <<60>>), S_gt, <<62>>), S_quot, <<34>>), S_apos, <<39>>)

\* _createChecksum
createChecksum(metadata) == SHA256Hex(Utf8Encode(JSONStringify(metadata)))

\* <aicontag:name>text</aicontag:name>
XMPElement(name, text) ==
    <<60>> \o AI_XMP_PREFIX \o <<58>> \o name \o <<62>> \o text
    \o <<60, 47>> \o AI_XMP_PREFIX \o <<58>> \o name \o <<62>>

\* `${metadata[key] ? `<aicontag:key>...</aicontag:key>` : ''}`
XMPOptionalElement(metadata, key) ==
    IF Truthy(metadata, key) THEN XMPElement(key, escapeXML(Get(metadata, key)[3])) ELSE <<>>

\* _escapeXML calls text.replace: a value that is not a string throws
createXMPDataThrows(metadata) ==
    \E key \in {K_contentType, K_origin, K_created, K_author, K_description, K_license} :
        Truthy(metadata, key) /\ Get(metadata, key)[2] # "string"

\* _createXMPData
createXMPData(metadata, options) ==
    Utf8Encode(
        XMP_PROLOG
        \o XMPElement(K_contentType, escapeXML(Get(metadata, K_contentType)[3])) \o XMP_SEP
        \o XMPElement(K_origin, escapeXML(Get(metadata, K_origin)[3])) \o XMP_SEP
        \o XMPElement(K_created, escapeXML(Get(metadata, K_created)[3])) \o XMP_SEP
        \o XMPOptionalElement(metadata, K_author) \o XMP_SEP
        \o XMPOptionalElement(metadata, K_description) \o XMP_SEP
        \o XMPOptionalElement(metadata, K_license) \o XMP_SEP
        \o XMPElement(K_metadata, escapeXML(JSONStringify(metadata))) \o XMP_SEP
        \o (IF options.includeChecksum
            THEN XMPElement(K_checksum, createChecksum(metadata)) ELSE <<>>)
        \o XMP_EPILOG)

\* _createEXIFData
createEXIFData(metadata, options) == S_UNICODE0 \o Utf16leEncode(JSONStringify(metadata))

\* _createAPP1Segment; writeUInt16BE throws when the length needs more than 16 bits
createAPP1SegmentThrows(data, type) ==
    2 + Len(IF type = "XMP" THEN XMP_IDENTIFIER ELSE EXIF_IDENTIFIER) + Len(data) > 65535

\* a faulty _createAPP1Segment that mixes up the two identifiers
createAPP1SegmentMixedUp(data, type) ==
    LET identifier == IF type = "XMP" THEN EXIF_IDENTIFIER ELSE XMP_IDENTIFIER
        totalLength == 2 + 2 + Len(identifier) + Len(data)
    IN  UInt16BE(JPEG_APP1) \o UInt16BE(totalLength - 2) \o identifier \o data

createAPP1Segment(data, type) ==
    LET identifier == IF type = "XMP" THEN XMP_IDENTIFIER ELSE EXIF_IDENTIFIER
        totalLength == 2 + 2 + Len(identifier) + Len(data)
    IN  UInt16BE(JPEG_APP1) \o UInt16BE(totalLength - 2) \o identifier \o data

\* _parseXMPData: /<aicontag:metadata>(.*?)<\/aicontag:metadata>/s, first match
parseXMPData(xmpData) ==
    LET xmpString == Utf8Decode(xmpData)
        open == IndexOf(xmpString, XMP_OPEN_METADATA, 0)
        close == IF open < 0 THEN -1
                 ELSE IndexOf(xmpString, XMP_CLOSE_METADATA, open + Len(XMP_OPEN_METADATA))
    IN  IF close < 0 THEN JSONFail
        ELSE JSONParse(unescapeXML(Slice(xmpString, open + Len(XMP_OPEN_METADATA), close)))

\* _parseEXIFData
parseEXIFData(exifData) ==
    IF AsciiDecode(Slice(exifData, 0, 8)) = S_UNICODE0
    THEN JSONParse(Utf16leDecode(SliceFrom(exifData, 8)))
    ELSE JSONFail

\* _isAPP1Segment
isAPP1Segment(segment) == Len(segment) >= 2 /\ ReadUInt16BE(segment, 0) = JPEG_APP1

\* _isMetadataSegment: the identifier is the 16 characters at offsets 4..19
isMetadataSegment(segment) ==
    /\ isAPP1Segment(segment)
    /\ LET identifier == AsciiDecode(Slice(segment, 4, 20))
       IN  MatchesAt(identifier, S_Exif, 0) \/ MatchesAt(identifier, S_XapNamespace, 0)

\* _containsAIMetadata
containsAIMetadata(segment) ==
    /\ isMetadataSegment(segment)
    /\ LET segmentString == Utf8Decode(segment)
       IN  \/ Includes(segmentString, AI_XMP_NAMESPACE)
           \/ Includes(segmentString, S_AI_METADATA)
           \/ Includes(segmentString, S_QuotedContentType)

\* _extractXMPFromSegment / _extractEXIFFromSegment: [found, data]
extractXMPFromSegment(segment) ==
    IF AsciiDecode(Slice(segment, 4, 4 + Len(XMP_IDENTIFIER))) = XMP_IDENTIFIER
    THEN [found |-> TRUE, data |-> SliceFrom(segment, 4 + Len(XMP_IDENTIFIER))]
    ELSE [found |-> FALSE, data |-> <<>>]

extractEXIFFromSegment(segment) ==
    IF AsciiDecode(Slice(segment, 4, 4 + Len(EXIF_IDENTIFIER))) = EXIF_IDENTIFIER
    THEN [found |-> TRUE, data |-> SliceFrom(segment, 4 + Len(EXIF_IDENTIFIER))]
    ELSE [found |-> FALSE, data |-> <<>>]

\* _extractJPEGMetadata: the loop over the segments from index i
RECURSIVE extractFromSegments(_, _)
extractFromSegments(segments, i) ==
    IF i > Len(segments) THEN JSONFail
    ELSE LET segment == segments[i]
             fromXMP(xmp) == IF xmp.found THEN parseXMPData(xmp.data) ELSE JSONFail
             fromEXIF(exif) == IF exif.found THEN parseEXIFData(exif.data) ELSE JSONFail
             orNext(metadata) ==
                IF metadata.ok THEN metadata ELSE extractFromSegments(segments, i + 1)
             orEXIF(metadata) ==
                IF metadata.ok THEN metadata
                ELSE orNext(fromEXIF(extractEXIFFromSegment(segment)))
         IN  IF ~isAPP1Segment(segment) THEN extractFromSegments(segments, i + 1)
             ELSE orEXIF(fromXMP(extractXMPFromSegment(segment)))

\* _embedJPEGMetadata
embedJPEGMetadata(h, imageBuffer, metadata, options) ==
    LET withEXIF == h.preferredFormat \in {"exif", "both"}
        kept(segments) ==
            SelectSeq(SubSeq(segments, 2, Len(segments)),
                      LAMBDA s : ~(~h.preserveExisting /\ isMetadataSegment(s)))
        rebuilt(segments, xmpData, exifData) ==
            IF createAPP1SegmentThrows(xmpData, "XMP") THEN Thrown("build")
            ELSE IF withEXIF /\ createAPP1SegmentThrows(exifData, "EXIF") THEN Thrown("build")
            ELSE Bytes(ConcatAll(
                     <<segments[1]>>
                     \o (IF withEXIF THEN <<createAPP1Segment(exifData, "EXIF")>> ELSE <<>>)
                     \o <<createAPP1Segment(xmpData, "XMP")>>
                     \o kept(segments)))
        fromSegments(parsed) ==
            IF ~parsed.ok THEN Thrown("parse")
            ELSE IF createXMPDataThrows(metadata) THEN Thrown("build")
            ELSE rebuilt(parsed.segments, createXMPData(metadata, options),
                         createEXIFData(metadata, options))
    IN  fromSegments(parseJPEGSegments(imageBuffer))

\* _removeJPEGMetadata
removeJPEGMetadata(imageBuffer) ==
    LET filtered(parsed) ==
            IF ~parsed.ok THEN Thrown("parse")
            ELSE Bytes(ConcatAll(SelectSeq(parsed.segments,
                     LAMBDA s : ~(isMetadataSegment(s) /\ containsAIMetadata(s)))))
    IN  filtered(parseJPEGSegments(imageBuffer))

\* a faulty placeholder that returns instead of throwing
placeholderReturns == FALSE

\* the TIFF and PNG placeholders: TRUE when the placeholder throws
embedTIFFMetadataThrows == TRUE

extractTIFFMetadataThrows == TRUE

embedPNGMetadataThrows == TRUE

extractPNGMetadataThrows == TRUE

removeTIFFMetadata(imageBuffer) == Bytes(imageBuffer)

removePNGMetadata(imageBuffer) == Bytes(imageBuffer)

\* a faulty embedMetadata that looks at the container before the record
embedMetadataContainerFirst(h, imageBuffer, metadata, options) ==
    LET format == detectImageFormat(imageBuffer)
    IN  IF format = "tiff" \/ format = "png" THEN Thrown("placeholder")
        ELSE IF format # "jpeg" THEN Thrown("format")
        ELSE IF validateMetadataThrows(metadata) THEN Thrown("validation")
        ELSE embedJPEGMetadata(h, imageBuffer, metadata, options)

\* EXIFImageHandler.embedMetadata
EXIF_embedMetadata(h, imageBuffer, metadata, options) ==
    LET format == detectImageFormat(imageBuffer)
    IN  IF validateMetadataThrows(metadata) THEN Thrown("validation")
        ELSE IF format = "jpeg" THEN embedJPEGMetadata(h, imageBuffer, metadata, options)
        ELSE IF format = "tiff"
             THEN IF embedTIFFMetadataThrows THEN Thrown("placeholder") ELSE Bytes(imageBuffer)
        ELSE IF format = "png"
             THEN IF embedPNGMetadataThrows THEN Thrown("placeholder") ELSE Bytes(imageBuffer)
        ELSE Thrown("format")

\* EXIFImageHandler.extractMetadata
EXIF_extractMetadata(h, imageBuffer) ==
    LET format == detectImageFormat(imageBuffer)
        fromJPEG(found) ==
            IF found.ok THEN Object(withVerification(found.value, imageBuffer)) ELSE Null
        fromSegments(parsed) ==
            IF ~parsed.ok THEN Thrown("parse")
            ELSE fromJPEG(extractFromSegments(parsed.segments, 1))
    IN  IF format = "jpeg" THEN fromSegments(parseJPEGSegments(imageBuffer))
        ELSE IF format = "tiff" THEN IF extractTIFFMetadataThrows THEN Thrown("placeholder") ELSE Null
        ELSE IF format = "png" THEN IF extractPNGMetadataThrows THEN Thrown("placeholder") ELSE Null
        ELSE Null

\* EXIFImageHandler.hasMetadata
EXIF_hasMetadata(h, imageBuffer) ==
    Boolean(EXIF_extractMetadata(h, imageBuffer).kind = "object")

\* EXIFImageHandler.removeMetadata
EXIF_removeMetadata(h, imageBuffer) ==
    LET format == detectImageFormat(imageBuffer)
    IN  IF format = "jpeg" THEN removeJPEGMetadata(imageBuffer)
        ELSE IF format = "tiff" THEN removeTIFFMetadata(imageBuffer)
        ELSE IF format = "png" THEN removePNGMetadata(imageBuffer)
        ELSE Bytes(imageBuffer)

(***************************************************************************)
(* ContentMetadata (lib/core/metadata.js).  An instance is the object of   *)
(* its nine fields; content is a Buffer or a string.                       *)
(***************************************************************************)
\* options[key] || fallback
OrDefault(options, key, fallback) ==
    IF Truthy(options, key) THEN Get(options, key) ELSE Str(key, fallback)

\* options[key], undefined when the option is not given
Option(options, key) ==
    IF HasKey(options, key) THEN Get(options, key) ELSE Prop(key, "undefined", <<>>)

\* the constructor; `now` is what new Date().toISOString() returns
ContentMetadata(options, now) ==
    <<Str(K_version, S_1_0),
      OrDefault(options, K_origin, S_human),
      OrDefault(options, K_author, S_Unknown),
      OrDefault(options, K_creation_timestamp, now),
      Option(options, K_license),
      Option(options, K_checksum),
      Option(options, K_signature),
      Option(options, K_toolchain),
      Option(options, K_model_identifier)>>

\* the bytes hash.update(content) digests: a string is encoded as UTF-8
HashedBytes(content) ==
    IF content.type = "string" THEN Utf8Encode(content.data) ELSE content.data

\* a faulty generateForContent that leaves the checksum of the options
generateWithoutChecksum(content, options, now) == ContentMetadata(options, now)

\* ContentMetadata.generateForContent
generateForContent(content, options, now) ==
    SetField(ContentMetadata(options, now), K_checksum, "string",
             SHA256Hex(HashedBytes(content)))

\* toObject: the five fixed fields, then the optional fields that are truthy
toObject(self) ==
    <<Get(self, K_version), Get(self, K_origin), Get(self, K_author),
      Get(self, K_creation_timestamp), Get(self, K_checksum)>>
    \o SelectSeq(<<Get(self, K_license), Get(self, K_signature), Get(self, K_toolchain),
                   Get(self, K_model_identifier)>>,
                 LAMBDA p : Truthy(self, p[1]))

\* verifyIntegrity: computedChecksum === this.checksum; nothing is assigned
verifyIntegrity(self, content) ==
    Get(self, K_checksum) = Str(K_checksum, SHA256Hex(HashedBytes(content)))

\* the instance after verifyIntegrity: the method assigns to no field
afterVerifyIntegrity(self, content) == self

(***************************************************************************)
(* Inputs: handler options, containers, metadata objects, embed options.   *)
(***************************************************************************)
\* largest number of embed / remove / tamper steps applied to one container
MaxSteps == 2

\* new ID3AudioHandler(options) / new EXIFImageHandler(options)
ID3Handlers ==
    {[kind |-> "id3", version |-> "2.4", preserveExisting |-> p, preferredFormat |-> "none"] :
        p \in BOOLEAN}

ImageHandlers ==
    {[kind |-> "image", version |-> "none", preserveExisting |-> p, preferredFormat |-> f] :
        p \in BOOLEAN, f \in {"xmp", "exif", "both"}}

\* an audio payload (the two bytes of an MPEG frame sync)
AudioPayload == <<255, 251>>

\* fixtures: an ID3v2 frame and tag laid out byte by byte
RawFrame(id, sizeBytes, data) == id \o sizeBytes \o <<0, 0>> \o data

RawTag(majorVersion, sizeBytes, body) == S_ID3 \o <<majorVersion, 0, 0>> \o sizeBytes \o body

CustomTagFrame == RawFrame(S_TXXX, <<0, 0, 0, 13>>, <<3>> \o S_CustomTag \o <<0, 104, 105>>)

TitleFrame == RawFrame(S_TIT2, <<0, 0, 0, 3>>, <<3, 104, 105>>)

ProvenanceOnlyFrame ==
    RawFrame(S_TXXX, <<0, 0, 0, 15>>, <<3>> \o S_AI_METADATA \o <<0, 123, 125>>)

\* a third-party frame with a frame flag set (tag alter preservation: 0x40)
FlaggedTitleFrame == S_TIT2 \o <<0, 0, 0, 3>> \o <<64, 0>> \o <<3, 104, 105>>

\* a third-party PRIV frame: owner 'X', two bytes of private data
ThirdPartyPrivFrame == RawFrame(S_PRIV, <<0, 0, 0, 4>>, <<88, 0, 1, 2>>)

BadJSONFrame ==
    RawFrame(S_TXXX, <<0, 0, 0, 15>>, <<3>> \o S_AI_METADATA \o <<0, 123, 33>>)

AudioContainers ==
    { <<1, 2, 3>>,
      <<255, 251, 144, 0, 1, 2, 3, 4, 5, 6, 7, 8>>,
      RawTag(4, <<0, 0, 0, 36>>, CustomTagFrame \o TitleFrame) \o AudioPayload,
      RawTag(3, <<0, 0, 0, 38>>, TitleFrame \o ProvenanceOnlyFrame) \o AudioPayload,
      RawTag(4, <<0, 0, 0, 25>>, ProvenanceOnlyFrame)
          \o RawTag(4, <<0, 0, 0, 25>>, ProvenanceOnlyFrame) \o AudioPayload,
      RawTag(4, <<0, 0, 0, 100>>, RawFrame(S_TIT2, <<0, 0, 0, 5>>, <<>>)),
      RawTag(4, <<0, 0, 0, 25>>, BadJSONFrame) \o AudioPayload,
      RawTag(4, <<0, 0, 0, 141>>, TitleFrame) \o AudioPayload,
      RawTag(3, <<0, 0, 0, 100>>, S_TIT2 \o <<0, 0>>),
      RawTag(4, <<0, 0, 0, 52>>,
             FlaggedTitleFrame \o ThirdPartyPrivFrame \o ProvenanceOnlyFrame)
          \o AudioPayload }

\* fixtures: JPEG segments laid out byte by byte
SOI == <<255, 216>>

APP0Segment == <<255, 224, 0, 4, 74, 70>>

CameraEXIFSegment == <<255, 225, 0, 10>> \o EXIF_IDENTIFIER \o <<77, 77>>

ScanData == <<255, 218, 17, 34>>

ImageContainers ==
    { SOI \o APP0Segment \o ScanData,
      SOI \o CameraEXIFSegment \o APP0Segment \o ScanData,
      SOI \o APP0Segment \o <<0, 9>> \o ScanData,
      SOI \o <<255, 224, 0, 255, 1, 2>>,
      SOI \o <<255, 224, 0>>,
      <<137, 80, 78, 71, 13, 10>>,
      <<73, 73, 42, 0>>,
      <<77, 77, 0, 42>>,
      <<0, 1, 2, 3>> }

Containers(kind) == IF kind = "id3" THEN AudioContainers ELSE ImageContainers

\* metadata objects handed to embedMetadata
PlainRecord ==
    <<Str(K_contentType, <<105, 109, 103>>), Str(K_origin, <<97, 105>>),
      Str(K_created, <<50, 48, 50, 52>>)>>

\* a record that already carries a checksum property, and whose author holds
\* XML-significant and JSON-significant characters: <a&"b'>
ChecksumRecord ==
    PlainRecord \o <<Str(K_author, <<60, 97, 38, 34, 98, 39, 62>>),
                     Str(K_checksum, <<99, 48, 102, 102, 101, 101>>)>>

\* an author holding entity-like text: &lt;
EntityRecord == Append(PlainRecord, Str(K_author, S_lt))

\* a record without the required field `created`
IncompleteRecord == <<Str(K_contentType, <<105, 109, 103>>), Str(K_origin, <<97, 105>>)>>

\* records of the canonical schema: generateForContent(...).toObject(), without
\* options and with origin and license given
CanonicalRecords ==
    { toObject(generateForContent([type |-> "buffer", data |-> AudioPayload], options,
                                  <<50, 48, 50, 52>>)) :
        options \in { <<>>, <<Str(K_origin, <<97, 105>>), Str(K_license, <<77, 73, 84>>)>> } }

\* a PEM private key, by name
PrivateKey == <<75>>

\* options of one embedMetadata call (includeChecksum undefined counts as true)
DefaultOptions == [includeChecksum |-> TRUE, privateKey |-> <<>>]

NoChecksum == [includeChecksum |-> FALSE, privateKey |-> <<>>]

Signing == [includeChecksum |-> TRUE, privateKey |-> PrivateKey]

Call(metadata, options) == [metadata |-> metadata, options |-> options]

\* the embedMetadata calls a caller makes on a handler of the given kind
EmbedCalls(kind) ==
    { Call(PlainRecord, DefaultOptions), Call(ChecksumRecord, DefaultOptions),
      Call(PlainRecord, NoChecksum), Call(PlainRecord, Signing),
      Call(IncompleteRecord, DefaultOptions), Call(NotAnObject, DefaultOptions) }
    \cup (IF kind = "image" THEN {Call(EntityRecord, DefaultOptions)} ELSE {})
    \cup {Call(canonical, DefaultOptions) : canonical \in CanonicalRecords}

(***************************************************************************)
(* The state machine: one handler working on one container file.           *)
(***************************************************************************)
embedMetadata(h, buffer, metadata, options) ==
    IF h.kind = "id3" THEN ID3_embedMetadata(h, buffer, metadata, options)
    ELSE EXIF_embedMetadata(h, buffer, metadata, options)

extractMetadata(h, buffer) ==
    IF h.kind = "id3" THEN ID3_extractMetadata(h, buffer) ELSE EXIF_extractMetadata(h, buffer)

hasMetadata(h, buffer) ==
    IF h.kind = "id3" THEN ID3_hasMetadata(h, buffer) ELSE EXIF_hasMetadata(h, buffer)

removeMetadata(h, buffer) ==
    IF h.kind = "id3" THEN ID3_removeMetadata(h, buffer) ELSE EXIF_removeMetadata(h, buffer)

\* 0-based offset of the content payload of a file: the audio after the tag,
\* or the scan data after the SOS marker; Len(buffer) if there is none
PayloadStart(h, buffer) ==
    IF h.kind = "id3" THEN Min(parseID3Header(buffer).tagSize, Len(buffer))
    ELSE LET segments == parseJPEGSegments(buffer).segments
             last == segments[Len(segments)]
         IN  IF Len(segments) >= 2 /\ MatchesAt(last, UInt16BE(JPEG_SOS), 0)
             THEN Len(buffer) - Len(last) + 2
             ELSE Len(buffer)

\* no library function is being applied on its own
Idle == [fn |-> "none", stage |-> 0, given |-> <<>>, made |-> <<>>, back |-> <<>>]

Init ==
    /\ probe = Idle
    /\ handler \in ID3Handlers \cup ImageHandlers
    /\ file \in Containers(handler.kind)
    /\ input = <<>>
    /\ lastOp = "none"
    /\ argument = <<>>
    /\ record = <<>>
    /\ embedOptions = DefaultOptions
    /\ result = NoResult
    /\ since = "never"
    /\ steps = 0

\* a run is a few writes (embed, remove, and one alteration of the payload),
\* then one read; an error ends it
Open == result.kind # "error" /\ lastOp \notin {"extract", "hasMetadata"}

Writable == Open /\ since # "tampered" /\ steps < MaxSteps

\* the caller embeds `metadata` and, on success, writes the output file
Embed(metadata, options) ==
    /\ Writable
    /\ result' = embedMetadata(handler, file, metadata, options)
    /\ file' = IF result'.kind = "bytes" THEN result'.bytes ELSE file
    /\ record' = IF result'.kind = "bytes" THEN metadata ELSE record
    /\ embedOptions' = IF result'.kind = "bytes" THEN options ELSE embedOptions
    /\ since' = IF result'.kind = "bytes" THEN "fresh" ELSE since
    /\ input' = file
    /\ argument' = metadata
    /\ lastOp' = "embed"
    /\ steps' = steps + 1
    /\ UNCHANGED <<handler, probe>>

Extract ==
    /\ Open
    /\ result' = extractMetadata(handler, file)
    /\ input' = file
    /\ lastOp' = "extract"
    /\ UNCHANGED <<handler, file, argument, record, embedOptions, since, steps, probe>>

HasMetadata ==
    /\ Open
    /\ result' = hasMetadata(handler, file)
    /\ input' = file
    /\ lastOp' = "hasMetadata"
    /\ UNCHANGED <<handler, file, argument, record, embedOptions, since, steps, probe>>

\* the caller removes the metadata and, on success, writes the output file
Remove ==
    /\ Writable
    /\ result' = removeMetadata(handler, file)
    /\ file' = IF result'.kind = "bytes" THEN result'.bytes ELSE file
    /\ since' = IF result'.kind = "bytes" /\ since # "never" THEN "removed" ELSE since
    /\ input' = file
    /\ lastOp' = "remove"
    /\ steps' = steps + 1
    /\ UNCHANGED <<handler, argument, record, embedOptions, probe>>

\* somebody alters one byte of the content payload of a freshly embedded file
Tamper(at) ==
    /\ Writable
    /\ since = "fresh"
    /\ file' = [file EXCEPT ![at + 1] = (@ + 1) % 256]
    /\ input' = file
    /\ lastOp' = "tamper"
    /\ result' = NoResult
    /\ since' = "tampered"
    /\ steps' = steps + 1
    /\ UNCHANGED <<handler, argument, record, embedOptions, probe>>

Next ==
    \/ \E call \in EmbedCalls(handler.kind) : Embed(call.metadata, call.options)
    \/ Extract
    \/ HasMetadata
    \/ Remove
    \/ \E at \in PayloadStart(handler, file)..(Len(file) - 1) : Tamper(at)

Spec == Init /\ [][Next]_vars

(***************************************************************************)
(* The library functions applied on their own: the synchsafe codec of the  *)
(* ID3 handler and the integrity check of ContentMetadata.                 *)
(***************************************************************************)
\* the 7-bit groups the sampled values are made of
SynchsafeGroups == {0, 1, 64, 127}

\* values of 0 .. 0x0FFFFFFF, the two ends included
SynchsafeValues ==
    { ((a * 128 + b) * 128 + c) * 128 + d :
        a \in SynchsafeGroups, b \in SynchsafeGroups, c \in SynchsafeGroups,
        d \in SynchsafeGroups }

\* contents handed to generateForContent and verifyIntegrity: 'a' as a string
\* and as bytes, and other byte sequences
Contents ==
    { [type |-> "string", data |-> <<97>>], [type |-> "buffer", data |-> <<97>>],
      [type |-> "buffer", data |-> <<>>], [type |-> "buffer", data |-> <<97, 98>>],
      [type |-> "buffer", data |-> <<98, 97>>], [type |-> "string", data |-> <<233>>] }

\* options of generateForContent: none, origin and license, a checksum given
GenerateOptions ==
    { <<>>,
      <<Str(K_origin, <<97, 105>>), Str(K_license, <<77, 73, 84>>)>>,
      <<Str(K_checksum, <<99, 48, 102, 102, 101, 101>>)>> }

\* what new Date().toISOString() returns: '2024', '2025'
Clock == { <<50, 48, 50, 52>>, <<50, 48, 50, 53>> }

\* a frame object with the given payload
TagFrame(id, data) == [id |-> id, size |-> Len(data), flags |-> <<>>, data |-> data]

\* a payload of n bytes
Payload(n) == [i \in 1..n |-> 7]

\* frame lists handed to _buildID3Tag: none, frames as the codec creates them,
\* payloads of 127, 128 and 256 bytes, and a frame whose payload is empty
TagFrameLists ==
    { <<>>,
      <<TagFrame(S_TIT2, <<3, 104, 105>>)>>,
      <<createTextFrame(S_TXXX, S_AI_METADATA, <<123, 125>>),
        createPrivateFrame(S_PRIV, S_AI_SIGNATURE, <<75>>)>>,
      <<TagFrame(S_TIT2, Payload(127)), TagFrame(S_TIT2, <<3, 104, 105>>)>>,
      <<TagFrame(S_TIT2, Payload(128)), TagFrame(S_TIT2, <<3, 104, 105>>)>>,
      <<TagFrame(S_TIT2, Payload(256)), TagFrame(S_TIT2, <<3, 104, 105>>)>>,
      <<TagFrame(S_TIT2, <<>>), TagFrame(S_TIT2, <<3, 104, 105>>)>> }

\* ID3 handlers by their version option: the default '2.4', and '2.3'
VersionedHandlers ==
    {[kind |-> "id3", version |-> v, preserveExisting |-> TRUE, preferredFormat |-> "none"] :
        v \in {"2.4", "2.3"}}

\* buffers walked frame by frame: the audio containers, a tag with a frame of
\* declared size 0, and a tag whose frame declares more than the input holds
FrameWalkInputs ==
    {c \in AudioContainers : parseID3Header(c).hasID3}
    \cup { RawTag(4, <<0, 0, 0, 30>>, RawFrame(S_TIT2, <<0, 0, 0, 0>>, <<>>) \o TitleFrame),
           RawTag(4, <<0, 0, 0, 30>>, TitleFrame \o RawFrame(S_TIT2, <<0, 0, 1, 0>>, <<1>>)) }

\* buffers walked segment by segment: the JPEG containers, and segments of
\* declared length 0 and 2
SegmentWalkInputs ==
    {c \in ImageContainers : detectImageFormat(c) = "jpeg"}
    \cup { SOI \o <<255, 224, 0, 0>> \o ScanData,
           SOI \o <<255, 224, 0, 2, 255, 224, 0, 2>> \o ScanData,
           SOI \o <<255, 224, 0, 0, 255, 0, 0, 0>> }

\* strings handed to _escapeXML: plain text, the five special characters,
\* and entity-like text
XMLStrings ==
    { <<>>, <<97, 98>>, <<60, 97, 38, 34, 98, 39, 62>>, <<97, 60, 98>>,
      S_lt, S_amp, S_quot, <<38, 38>>, S_amp \o S_lt }

\* a library function about to be applied to `given`
Probe(fn, given) == [Idle EXCEPT !.fn = fn, !.given = given]

\* the calls the library specification starts from, by function
LibraryProbes(fn) ==
    IF fn = "synchsafe" THEN {Probe(fn, value) : value \in SynchsafeValues}
    ELSE IF fn = "integrity"
    THEN {Probe(fn, [content |-> content, options |-> options]) :
             content \in Contents, options \in GenerateOptions}
    ELSE IF fn = "tag"
    THEN {Probe(fn, [handler |-> h, frames |-> frames]) :
             h \in VersionedHandlers, frames \in TagFrameLists}
    ELSE IF fn = "frames" THEN {Probe(fn, buffer) : buffer \in FrameWalkInputs}
    ELSE IF fn = "segments" THEN {Probe(fn, buffer) : buffer \in SegmentWalkInputs}
    ELSE {Probe(fn, text) : text \in XMLStrings}

LibraryFunctions == {"synchsafe", "integrity", "tag", "frames", "segments", "xml"}

LibraryInit ==
    /\ \E fn \in LibraryFunctions : probe \in LibraryProbes(fn)
    /\ handler = "none"
    /\ file = <<>>
    /\ input = <<>>
    /\ lastOp = "none"
    /\ argument = <<>>
    /\ record = <<>>
    /\ embedOptions = DefaultOptions
    /\ result = NoResult
    /\ since = "never"
    /\ steps = 0

\* _writeSynchsafeInt(buffer, offset, value): the four bytes it writes
WriteSynchsafe ==
    /\ probe.fn = "synchsafe" /\ probe.stage = 0
    /\ probe' = [probe EXCEPT !.stage = 1, !.made = writeSynchsafeInt(probe.given)]
    /\ UNCHANGED run

\* _readSynchsafeInt on the bytes written
ReadSynchsafe ==
    /\ probe.fn = "synchsafe" /\ probe.stage = 1
    /\ probe' = [probe EXCEPT !.stage = 2, !.back = readSynchsafeInt(probe.made)]
    /\ UNCHANGED run

\* m = ContentMetadata.generateForContent(c, opts)
Generate(now) ==
    /\ probe.fn = "integrity" /\ probe.stage = 0
    /\ probe' = [probe EXCEPT !.stage = 1,
                    !.made = generateForContent(probe.given.content, probe.given.options, now)]
    /\ UNCHANGED run

\* m.verifyIntegrity(c'): the verdict, and m as the call leaves it
Verify(content) ==
    /\ probe.fn = "integrity" /\ probe.stage = 1
    /\ probe' = [probe EXCEPT !.stage = 2,
                    !.back = [content |-> content,
                              verdict |-> verifyIntegrity(probe.made, content),
                              self |-> afterVerifyIntegrity(probe.made, content)]]
    /\ UNCHANGED run

\* _buildID3Tag(frames)
BuildTag ==
    /\ probe.fn = "tag" /\ probe.stage = 0
    /\ probe' = [probe EXCEPT !.stage = 1,
                    !.made = buildID3Tag(probe.given.handler, probe.given.frames)]
    /\ UNCHANGED run

\* _parseID3Header and _parseID3Frames on the tag built
ReparseTag ==
    /\ probe.fn = "tag" /\ probe.stage = 1
    /\ probe' = [probe EXCEPT !.stage = 2,
                    !.back = [tagEnd |-> parseID3Header(probe.made).tagSize,
                              parsed |-> parseID3Frames(probe.made,
                                                        parseID3Header(probe.made))]]
    /\ UNCHANGED run

\* _parseID3Frames is entered: the header is read, the cursor is at offset 10
StartFrameWalk ==
    /\ probe.fn = "frames" /\ probe.stage = 0
    /\ probe' = [probe EXCEPT !.stage = 1,
                    !.made = [offset |-> ID3_HEADER_SIZE],
                    !.back = parseID3Header(probe.given)]
    /\ UNCHANGED run

\* one turn of the loop of _parseID3Frames
FrameWalkTurn ==
    /\ probe.fn = "frames" /\ probe.stage = 1
    /\ probe' = [probe EXCEPT
                    !.stage = IF frameWalkTurn(probe.given, probe.back, probe.made.offset).stop
                              THEN 2 ELSE 1,
                    !.made = [offset |-> frameWalkTurn(probe.given, probe.back,
                                                       probe.made.offset).offset]]
    /\ UNCHANGED run

\* _parseJPEGSegments is entered: the SOI marker is read, the cursor is at 2
StartSegmentWalk ==
    /\ probe.fn = "segments" /\ probe.stage = 0
    /\ probe' = [probe EXCEPT !.stage = 1, !.made = [offset |-> 2]]
    /\ UNCHANGED run

\* one turn of the loop of _parseJPEGSegments
SegmentWalkTurn ==
    /\ probe.fn = "segments" /\ probe.stage = 1
    /\ probe' = [probe EXCEPT
                    !.stage = IF segmentWalkTurn(probe.given, probe.made.offset).stop
                              THEN 2 ELSE 1,
                    !.made = [offset |-> segmentWalkTurn(probe.given,
                                                         probe.made.offset).offset]]
    /\ UNCHANGED run

\* _escapeXML(s)
EscapeXML ==
    /\ probe.fn = "xml" /\ probe.stage = 0
    /\ probe' = [probe EXCEPT !.stage = 1, !.made = escapeXML(probe.given)]
    /\ UNCHANGED run

\* _unescapeXML on the escaped text
UnescapeXML ==
    /\ probe.fn = "xml" /\ probe.stage = 1
    /\ probe' = [probe EXCEPT !.stage = 2, !.back = unescapeXML(probe.made)]
    /\ UNCHANGED run

LibraryNext ==
    \/ WriteSynchsafe
    \/ ReadSynchsafe
    \/ \E now \in Clock : Generate(now)
    \/ \E content \in Contents : Verify(content)
    \/ BuildTag
    \/ ReparseTag
    \/ StartFrameWalk
    \/ FrameWalkTurn
    \/ StartSegmentWalk
    \/ SegmentWalkTurn
    \/ EscapeXML
    \/ UnescapeXML

Library == LibraryInit /\ [][LibraryNext]_vars

\* a loop that has begun runs on: while it can take a turn it takes it
LibraryToTheEnd == Library /\ WF_vars(FrameWalkTurn) /\ WF_vars(SegmentWalkTurn)

(***************************************************************************)
(* Properties.                                                             *)
(***************************************************************************)
\* a record without the derived flags _verified and _signatureValid
StripFlags(m) == DeleteField(DeleteField(m, K_verified), K_signatureValid)

\* the integrity verdict of an extracted record is `b`
Verdict(m, b) == HasKey(m, K_verified) /\ Get(m, K_verified) = Bool(K_verified, b)

\* the file read by the last extractMetadata is the unmodified output of a
\* successful embedMetadata(C, record, embedOptions)
ExtractedFromFresh == lastOp = "extract" /\ since = "fresh"

\* a JPEG whose segment chain runs without a gap from SOI to an SOS marker
RECURSIVE SegmentChainReachesSOS(_, _)
SegmentChainReachesSOS(buffer, offset) ==
    /\ offset + 2 <= Len(buffer)
    /\ buffer[offset + 1] = 255
    /\ \/ buffer[offset + 2] = 218
       \/ /\ offset + 4 <= Len(buffer)
          /\ ReadUInt16BE(buffer, offset + 2) >= 2
          /\ SegmentChainReachesSOS(buffer, offset + 2 + ReadUInt16BE(buffer, offset + 2))

WellFormedJPEG(buffer) ==
    /\ Len(buffer) >= 4
    /\ Slice(buffer, 0, 2) = <<255, 216>>
    /\ SegmentChainReachesSOS(buffer, 2)

\* C1 (ID3 round-trip): for the ID3 handler with default options, extracting
\* from the unmodified output of embedMetadata(C, R) returns a record that
\* equals R field for field once _verified and _signatureValid are removed.
C1_ID3RoundTrip ==
    (ExtractedFromFresh /\ handler.kind = "id3" /\ handler.preserveExisting
        /\ embedOptions = DefaultOptions)
    => (result.kind = "object" /\ Fields(StripFlags(result.value)) = Fields(record))

\* C2 (JPEG round-trip): for the image handler with any preferredFormat and a
\* well-formed JPEG, extracting from the unmodified output of
\* embedMetadata(C, R) returns a record that equals R field for field once
\* _verified and _signatureValid are removed.
C2_JPEGRoundTrip ==
    (ExtractedFromFresh /\ handler.kind = "image" /\ WellFormedJPEG(input))
    => (result.kind = "object" /\ Fields(StripFlags(result.value)) = Fields(record))

\* the frames of the tag at the start of a buffer
FramesOf(buffer) == parseID3Frames(buffer, parseID3Header(buffer)).frames

\* the checksum value found in a container: the value of the TXXX frame
\* described AI_CHECKSUM, or the text of the XMP checksum element
ChecksumFrames(buffer) ==
    SelectSeq(FramesOf(buffer),
              LAMBDA f : f.id = S_TXXX /\ parseTextFrame(f.data).description = S_AI_CHECKSUM)

ChecksumOpenTag == <<60>> \o AI_XMP_PREFIX \o <<58>> \o K_checksum \o <<62>>

ChecksumCloseTag == <<60, 47>> \o AI_XMP_PREFIX \o <<58>> \o K_checksum \o <<62>>

WrittenChecksum(h, buffer) ==
    IF h.kind = "id3"
    THEN IF ChecksumFrames(buffer) = <<>> THEN <<>>
         ELSE parseTextFrame(ChecksumFrames(buffer)[1].data).value
    ELSE LET text == Utf8Decode(buffer)
             open == IndexOf(text, ChecksumOpenTag, 0)
             close == IndexOf(text, ChecksumCloseTag, 0)
         IN  IF open < 0 \/ close < 0 THEN <<>>
             ELSE Slice(text, open + Len(ChecksumOpenTag), close)

\* the readings of "the content bytes with no embedded-metadata region
\* present" for a container C: the payload after the carrier, C with its
\* metadata removed, and C itself when it carries none
ContentBytes(h, buffer) ==
    {SliceFrom(buffer, PayloadStart(h, buffer)), buffer}
    \cup (IF removeMetadata(h, buffer).kind = "bytes"
          THEN {removeMetadata(h, buffer).bytes} ELSE {})

\* C3 (checksum domain): the checksum value that embedMetadata writes into
\* the container is the SHA-256 of the content bytes with no embedded-metadata
\* region present.
C3_ChecksumOfContent ==
    (lastOp = "embed" /\ result.kind = "bytes" /\ embedOptions.includeChecksum)
    => \E content \in ContentBytes(handler, input) :
           WrittenChecksum(handler, result.bytes) = SHA256Hex(content)

\* C4 (tamper detection): when one byte of the content payload of a file
\* embedded with the checksum included is changed, extractMetadata reports
\* _verified false.
C4_TamperDetected ==
    (lastOp = "extract" /\ since = "tampered" /\ embedOptions.includeChecksum)
    => (result.kind = "object" /\ Verdict(result.value, FALSE))

\* C5 (fresh record verifies): extracting from the unmodified output of
\* embedMetadata made with includeChecksum enabled reports _verified true,
\* whatever fields the record carries and whether or not a private key is
\* supplied.
C5_FreshVerifies ==
    (ExtractedFromFresh /\ embedOptions.includeChecksum)
    => (result.kind = "object" /\ Verdict(result.value, TRUE))

\* the frames of a tag that are not provenance-owned
ThirdPartyFrames(buffer) == SelectSeq(FramesOf(buffer), LAMBDA f : ~isAIMetadataFrame(f))

\* C6 (ID3 non-destructive embed): with preserveExisting, the tag written by
\* embedMetadata starts with every frame of the input's tag that is not
\* provenance-owned, byte-identical and in the original order.
C6_ThirdPartyFramesKept ==
    (lastOp = "embed" /\ result.kind = "bytes" /\ handler.kind = "id3"
        /\ handler.preserveExisting /\ ThirdPartyFrames(input) # <<>>)
    => LET old == ThirdPartyFrames(input)
           new == FramesOf(result.bytes)
       IN  Len(old) <= Len(new) /\ SubSeq(new, 1, Len(old)) = old

\* the kinds of the APP1 segments that make up a byte sequence exactly
RECURSIVE APP1Kinds(_)
APP1Kinds(bytes) ==
    IF bytes = <<>> THEN <<>>
    ELSE IF Len(bytes) < 4 \/ Slice(bytes, 0, 2) # <<255, 225>> THEN <<"none">>
    ELSE LET end == 2 + ReadUInt16BE(bytes, 2)
         IN  IF end < 4 \/ end > Len(bytes) THEN <<"none">>
             ELSE <<IF MatchesAt(bytes, EXIF_IDENTIFIER, 4) THEN "exif"
                    ELSE IF MatchesAt(bytes, XMP_IDENTIFIER, 4) THEN "xmp"
                    ELSE "other">>
                  \o APP1Kinds(SliceFrom(bytes, end))

\* an embedMetadata call of the image handler, preserveExisting set, has
\* succeeded on a well-formed JPEG
EmbeddedInWellFormedJPEG ==
    /\ lastOp = "embed" /\ result.kind = "bytes"
    /\ handler.kind = "image" /\ handler.preserveExisting
    /\ WellFormedJPEG(input)

\* C7 (JPEG embed layout): for a well-formed JPEG and preserveExisting, the
\* output of embedMetadata is SOI, then the new APP1 segments (EXIF before
\* XMP), then every byte of the input after its SOI, the scan data last.
C7_JPEGEmbedLayout ==
    EmbeddedInWellFormedJPEG
    => LET inserted == Len(result.bytes) - Len(input)
       IN  /\ inserted > 0
           /\ Slice(result.bytes, 0, 2) = <<255, 216>>
           /\ APP1Kinds(Slice(result.bytes, 2, 2 + inserted))
                 = IF handler.preferredFormat = "xmp" THEN <<"xmp">> ELSE <<"exif", "xmp">>
           /\ SliceFrom(result.bytes, 2 + inserted) = SliceFrom(input, 2)
           /\ WellFormedJPEG(result.bytes)

C7_Witness ==
    /\ EmbeddedInWellFormedJPEG
    /\ handler.preferredFormat = "both"
    /\ Len(parseJPEGSegments(input).segments) >= 4

\* C8 (idempotent removal): when removeMetadata succeeds, removing again from
\* its output returns that output unchanged.
C8_RemoveIdempotent ==
    (lastOp = "remove" /\ result.kind = "bytes")
    => removeMetadata(handler, result.bytes) = Bytes(result.bytes)

\* embedMetadata or extractMetadata of the image handler has been called on
\* bytes classified as PNG or TIFF
CalledOnPNGOrTIFF(ops) ==
    /\ handler.kind = "image"
    /\ lastOp \in ops
    /\ detectImageFormat(input) \in {"png", "tiff"}

\* C9 (format rejection): embedMetadata and extractMetadata of the image
\* handler on PNG or TIFF bytes end in an error; they return neither bytes
\* nor a record nor null.
C9_PNGAndTIFFRejected == CalledOnPNGOrTIFF({"embed", "extract"}) => result.kind = "error"

C9_Witness ==
    /\ CalledOnPNGOrTIFF({"embed"})
    /\ ~validateMetadataThrows(argument)
    /\ detectImageFormat(input) = "png"
    /\ result.kind = "error"

\* C10 (uniform unsupported-container error): removeMetadata of the image
\* handler on PNG or TIFF bytes ends in an error; it does not return the
\* input bytes.
C10_RemoveRejectsPNGAndTIFF == CalledOnPNGOrTIFF({"remove"}) => result.kind = "error"

\* C11 (extract on absent metadata): extractMetadata of the ID3 handler on any
\* byte sequence, and of the image handler on any input classified as jpeg,
\* returns null and never an error when it finds no provenance record.
C11_ExtractNullWithoutProvenance ==
    (lastOp = "extract" /\ result.kind # "object"
        /\ (handler.kind = "id3" \/ detectImageFormat(input) = "jpeg"))
    => result.kind = "null"

\* C12 (synchsafe codec round-trip): for a value of 0 .. 0x0FFFFFFF,
\* _writeSynchsafeInt produces four bytes, each at most 0x7F, that hold the
\* value in big-endian 7-bit groups, and _readSynchsafeInt of those bytes
\* returns the value; 0x0FFFFFFF is written as 7F 7F 7F 7F.
C12_SynchsafeRoundTrip ==
    (probe.fn = "synchsafe" /\ probe.stage = 2)
    => /\ Len(probe.made) = 4
       /\ \A i \in 1..4 : probe.made[i] \in 0..127
       /\ probe.given = ((probe.made[1] * 128 + probe.made[2]) * 128 + probe.made[3]) * 128
                        + probe.made[4]
       /\ probe.back = probe.given
       /\ (probe.given = 268435455 => probe.made = <<127, 127, 127, 127>>)

C12_Witness ==
    /\ probe.fn = "synchsafe" /\ probe.stage = 2
    /\ probe.given = 268435455
    /\ probe.made = <<127, 127, 127, 127>>
    /\ probe.back = 268435455

\* C13 (integrity check is a pure predicate): for m = generateForContent(c,
\* opts), m.verifyIntegrity(c') is true when c' has the bytes of c and false
\* when its bytes differ, and the call leaves every field of m as it was.
C13_VerifyIntegrityIsPure ==
    (probe.fn = "integrity" /\ probe.stage = 2)
    => /\ probe.back.verdict
            <=> (HashedBytes(probe.back.content) = HashedBytes(probe.given.content))
       /\ probe.back.self = probe.made

C13_Witness ==
    /\ probe.fn = "integrity" /\ probe.stage = 2
    /\ probe.given.content = [type |-> "buffer", data |-> <<97, 98>>]
    /\ probe.back.content = [type |-> "buffer", data |-> <<98, 97>>]
    /\ ~probe.back.verdict
    /\ probe.back.self = probe.made

\* C14 (signature verification fails closed): no public key is available to
\* extractMetadata, so when the extracted record carries a signature its
\* _signatureValid flag is never true.
C14_SignatureFailsClosed ==
    (lastOp = "extract" /\ result.kind = "object" /\ HasKey(result.value, K_signature))
    => ~(HasKey(result.value, K_signatureValid)
         /\ Get(result.value, K_signatureValid) = Bool(K_signatureValid, TRUE))

\* a metadata argument that is not an object or lacks a required field
InvalidRecord(metadata) ==
    \/ metadata = NotAnObject
    \/ \E field \in {K_contentType, K_origin, K_created} : ~HasKey(metadata, field)

\* C15 (validation precedes writing): embedMetadata of either handler with a
\* record that is not an object or lacks a required field raises the
\* validation error, whatever the container holds, returns no bytes and
\* leaves the input file as it was.
C15_ValidationPrecedesWriting ==
    (lastOp = "embed" /\ InvalidRecord(argument))
    => (result = Thrown("validation") /\ file = input)

\* an invalid record on a container whose parsing would itself raise
C15_Witness ==
    /\ lastOp = "embed"
    /\ handler.kind = "image"
    /\ argument = IncompleteRecord
    /\ input = SOI \o <<255, 224, 0>>
    /\ result = Thrown("validation")
    /\ file = input

\* a buffer that begins with neither the JPEG SOI marker nor the PNG or TIFF
\* signature
NotAnImage(buffer) ==
    \A signature \in {SOI, <<137, 80, 78, 71>>, <<73, 73>>, <<77, 77>>} :
        ~MatchesAt(buffer, signature, 0)

\* C16 (non-JPEG input to the image handler): embedMetadata, extractMetadata
\* and removeMetadata of the image handler on a byte sequence that is neither
\* JPEG, PNG nor TIFF end in an error; none returns null or the input bytes.
C16_UnknownFormatRejected ==
    (handler.kind = "image" /\ lastOp \in {"embed", "extract", "remove"} /\ NotAnImage(input))
    => result.kind = "error"

\* C17 (validation accepts canonical records): a record of the canonical
\* schema, as produced by generateForContent(...).toObject(), passes the
\* validation step of embedMetadata of both handlers.
C17_CanonicalRecordAccepted ==
    (lastOp = "embed" /\ argument \in CanonicalRecords) => result.raisedBy # "validation"

\* a buffer that starts with an ID3v2 tag header
HasTag(buffer) == Len(buffer) >= 10 /\ Slice(buffer, 0, 3) = S_ID3

\* the declared end of the tag at the start of a buffer: ten header bytes plus
\* the size held in 7-bit groups by header bytes 6..9; 0 when there is no tag
DeclaredEnd(buffer) ==
    IF HasTag(buffer)
    THEN 10 + ((buffer[7] * 128 + buffer[8]) * 128 + buffer[9]) * 128 + buffer[10]
    ELSE 0

\* the bytes of a buffer from the declared end of its tag onward
AfterTag(buffer) == SliceFrom(buffer, DeclaredEnd(buffer))

\* `output` is one complete tag, holding at least one frame header, followed
\* by exactly the bytes `payload`
TagThenPayload(output, payload) ==
    LET tagLength == Len(output) - Len(payload)
    IN  /\ tagLength >= 20
        /\ HasTag(output)
        /\ DeclaredEnd(output) = tagLength
        /\ Slice(output, 10, 14) # <<0, 0, 0, 0>>
        /\ SliceFrom(output, tagLength) = payload

\* removeMetadata of the ID3 handler has returned bytes
RemovedFromAudio == lastOp = "remove" /\ handler.kind = "id3" /\ result.kind = "bytes"

ProvenanceOwned(frame) ==
    \/ /\ frame.id = S_TXXX
       /\ \E description \in {S_AI_METADATA, S_AI_CHECKSUM} :
              MatchesAt(frame.data, description \o <<0>>, 1)
    \/ /\ frame.id = S_PRIV
       /\ MatchesAt(frame.data, S_AI_SIGNATURE \o <<0>>, 0)

\* the id, flags and payload bytes of every frame of a list
FrameContents(frames) ==
    [i \in 1..Len(frames) |->
        [id |-> frames[i].id, flags |-> frames[i].flags, data |-> frames[i].data]]

\* C19 (ownership filter on removal): the tag rebuilt by removeMetadata holds
\* exactly the frames of the input that are not provenance-owned, in their
\* original order, each with its id, flags and payload bytes unchanged.
C19_RebuiltTagKeepsOtherFrames ==
    (RemovedFromAudio /\ HasTag(input)
        /\ SelectSeq(FramesOf(input), LAMBDA f : ~ProvenanceOwned(f)) # <<>>)
    => FrameContents(FramesOf(result.bytes))
           = FrameContents(SelectSeq(FramesOf(input), LAMBDA f : ~ProvenanceOwned(f)))

\* embedMetadata of the ID3 handler has returned bytes
EmbeddedInAudio == lastOp = "embed" /\ handler.kind = "id3" /\ result.kind = "bytes"

\* C20 (ID3 embed replaces the old tag): the output of embedMetadata is the
\* newly built tag followed by exactly the input bytes from the declared end
\* of the old tag onward (from offset 0 when the input has no tag).
C20_EmbedReplacesOldTag ==
    EmbeddedInAudio
    => /\ TagThenPayload(result.bytes, AfterTag(input))
       /\ \E i \in 1..Len(FramesOf(result.bytes)) :
              /\ FramesOf(result.bytes)[i].id = S_TXXX
              /\ parseTextFrame(FramesOf(result.bytes)[i].data)
                    = [description |-> S_AI_METADATA, value |-> JSONStringify(argument)]

\* an input with a tag of third-party frames, then audio
C20_Witness ==
    /\ EmbeddedInAudio
    /\ input = RawTag(4, <<0, 0, 0, 36>>, CustomTagFrame \o TitleFrame) \o AudioPayload
    /\ AfterTag(input) = AudioPayload
    /\ SliceFrom(result.bytes, Len(result.bytes) - 2) = AudioPayload

\* the id and payload bytes of every frame of a list
FramePayloads(frames) ==
    [i \in 1..Len(frames) |-> [id |-> frames[i].id, data |-> frames[i].data]]

\* C21 (ID3 tag size consistency): for every frame list, the tag built by
\* _buildID3Tag is a 10-byte header, the frames, then 1024 zero bytes; the
\* size in header bytes 6-9 decodes to the length of frames plus padding; and
\* re-parsing the tag yields a tag end equal to its length and a frame walk
\* that returns the frames written, id and payload.
C21_BuiltTagReparses ==
    (probe.fn = "tag" /\ probe.stage = 2)
    => /\ HasTag(probe.made)
       /\ SliceFrom(probe.made, Len(probe.made) - 1024) = Zeros(1024)
       /\ DeclaredEnd(probe.made) = Len(probe.made)
       /\ probe.back.tagEnd = Len(probe.made)
       /\ probe.back.parsed.ok
       /\ FramePayloads(probe.back.parsed.frames) = FramePayloads(probe.given.frames)

\* an input that starts with the ID3 magic and whose size field has the most
\* significant bit set in one of its four bytes
SizeFieldHasHighBit(buffer) == HasTag(buffer) /\ \E i \in 7..10 : buffer[i] >= 128

\* C22 (ID3 header validation): embedMetadata, extractMetadata and
\* removeMetadata of the ID3 handler reject with an error an input that starts
\* with the ID3 magic and whose size field has the most significant bit set
\* in any byte.
C22_HighBitSizeRejected ==
    (handler.kind = "id3" /\ lastOp \in {"embed", "extract", "remove"}
        /\ SizeFieldHasHighBit(input))
    => result.kind = "error"

\* the segments of a JPEG, as _parseJPEGSegments returns them
SegmentsOf(buffer) == parseJPEGSegments(buffer).segments

\* an APP1 segment that carries the EXIF or the XMP identifier
CarriesIdentifier(segment) ==
    /\ MatchesAt(segment, <<255, 225>>, 0)
    /\ MatchesAt(segment, S_Exif, 4) \/ MatchesAt(segment, S_XapNamespace, 4)

\* a segment that contains a provenance marker: the provenance XMP namespace,
\* the AI_METADATA token or a "contentType" JSON key
HasProvenanceMarker(segment) ==
    \E marker \in {AI_XMP_NAMESPACE, S_AI_METADATA, S_QuotedContentType} :
        Includes(segment, marker)

\* removeMetadata of the image handler has returned bytes for a JPEG
RemovedFromJPEG ==
    /\ lastOp = "remove" /\ handler.kind = "image" /\ result.kind = "bytes"
    /\ detectImageFormat(input) = "jpeg"

\* C23 (JPEG removal dual check): removeMetadata on a JPEG drops every APP1
\* segment that carries the EXIF or the XMP identifier and contains a
\* provenance marker, and keeps every other segment byte-identical and in the
\* original order.
C23_RemoveDropsProvenanceSegments ==
    RemovedFromJPEG
    => result.bytes
          = ConcatAll(SelectSeq(SegmentsOf(input),
                LAMBDA s : ~(CarriesIdentifier(s) /\ HasProvenanceMarker(s))))

\* C24 (JPEG embed with preserveExisting disabled): the output holds none of
\* the input's APP1 segments that carry the EXIF or the XMP identifier; its
\* only EXIF/XMP APP1 segments are the ones embedMetadata just built.
C24_ExistingSegmentsDropped ==
    (lastOp = "embed" /\ handler.kind = "image" /\ result.kind = "bytes"
        /\ ~handler.preserveExisting)
    => Len(SelectSeq(SegmentsOf(result.bytes), CarriesIdentifier))
          = IF handler.preferredFormat = "xmp" THEN 1 ELSE 2

\* C25 (lossless JPEG segmentation): for every input classified as jpeg on
\* which _parseJPEGSegments returns, the concatenation of the returned
\* segments is byte-identical to the input.
C25_SegmentationLossless ==
    (handler.kind = "image" /\ lastOp \in {"embed", "extract", "remove"}
        /\ detectImageFormat(input) = "jpeg" /\ parseJPEGSegments(input).ok)
    => ConcatAll(SegmentsOf(input)) = input

\* a frame walk or a segment walk is in progress
Walking == probe.fn \in {"frames", "segments"} /\ probe.stage = 1

\* C26 (parsing terminates): every turn of the ID3 frame walk and of the JPEG
\* segment walk either stops the walk or strictly advances the cursor, and
\* every walk that has begun finishes.
C26_WalksTerminate ==
    /\ [][Walking => (probe'.stage = 2 \/ probe'.made.offset > probe.made.offset)]_vars
    /\ Walking ~> (probe.stage = 2)

\* a segment of declared length 0 has been walked over, and the walk is done
C26_Witness ==
    /\ probe.fn = "segments" /\ probe.stage = 2
    /\ probe.given = SOI \o <<255, 224, 0, 0>> \o ScanData
    /\ probe.made.offset = 4

\* a handler constructed without options (the defaults of both constructors)
DefaultHandler ==
    /\ handler.preserveExisting
    /\ handler.kind = "id3" => handler.version = "2.4"
    /\ handler.kind = "image" => handler.preferredFormat = "xmp"

\* C27 (removal undoes embedding): with default options, removeMetadata
\* applied once to the output of a successful embedMetadata yields bytes on
\* which extractMetadata returns null.
C27_RemovalUndoesEmbedding ==
    [][(DefaultHandler /\ lastOp = "embed" /\ result.kind = "bytes" /\ lastOp' = "remove")
        => (result'.kind = "bytes" /\ extractMetadata(handler, result'.bytes).kind = "null")]_vars

\* C28 (hasMetadata agrees with extract): for both codecs and every input,
\* hasMetadata returns true exactly when extractMetadata on the same bytes
\* returns a record.
C28_HasMetadataAgreesWithExtract ==
    lastOp = "hasMetadata"
    => (result.flag <=> extractMetadata(handler, input).kind = "object")

\* the TXXX frames described AI_METADATA in the tag at the start of a buffer
ProvenanceFrames(buffer) ==
    SelectSeq(FramesOf(buffer),
              LAMBDA f : f.id = S_TXXX /\ MatchesAt(f.data, S_AI_METADATA \o <<0>>, 1))

\* the XMP APP1 segments of a JPEG that name the provenance namespace
ProvenanceXMPSegments(buffer) ==
    SelectSeq(SegmentsOf(buffer),
              LAMBDA s : /\ MatchesAt(s, <<255, 225>>, 0)
                         /\ MatchesAt(s, XMP_IDENTIFIER, 4)
                         /\ Includes(s, AI_XMP_NAMESPACE))

\* the EXIF APP1 segments of a JPEG that hold a UNICODE user comment, as the
\* codec writes them
ProvenanceEXIFSegments(buffer) ==
    SelectSeq(SegmentsOf(buffer),
              LAMBDA s : /\ MatchesAt(s, <<255, 225>>, 0)
                         /\ MatchesAt(s, EXIF_IDENTIFIER \o S_UNICODE0, 4))

\* C29 (single provenance region): after a successful embedMetadata, with
\* preserveExisting enabled or disabled, the result holds exactly one
\* AI_METADATA frame (ID3) or exactly one provenance XMP APP1 segment and at
\* most one provenance EXIF APP1 segment (JPEG), and extractMetadata returns
\* a record that holds every field of the record just embedded.
C29_SingleProvenanceRegion ==
    (lastOp = "embed" /\ result.kind = "bytes")
    => /\ handler.kind = "id3" => Len(ProvenanceFrames(result.bytes)) = 1
       /\ (handler.kind = "image" /\ detectImageFormat(input) = "jpeg")
              => /\ Len(ProvenanceXMPSegments(result.bytes)) = 1
                 /\ Len(ProvenanceEXIFSegments(result.bytes)) <= 1
       /\ extractMetadata(handler, result.bytes).kind = "object"
       /\ Fields(argument) \subseteq Fields(extractMetadata(handler, result.bytes).value)

\* C30 (XML escaping round-trips): for every string s,
\* _unescapeXML(_escapeXML(s)) equals s, entity-like text included, and
\* _escapeXML(s) holds no raw '<'.
C30_XMLEscapeRoundTrip ==
    (probe.fn = "xml" /\ probe.stage = 2)
    => (probe.back = probe.given /\ ~Includes(probe.made, <<60>>))
====
